---------------------------- MODULE Spec2Model ----------------------------
(***************************************************************************)
(* Maker-Checker decision engine of llm-squared-framework.                 *)
(*                                                                         *)
(* Quality scores are modelled as integer hundredths (0.85 -> 85), costs   *)
(* as whole currency units.  Where the code compares a difference of two   *)
(* scores with a constant (ConvergenceDetector), the outcome of the IEEE   *)
(* double arithmetic at the exact decimal boundary is taken from tables.   *)
(***************************************************************************)
EXTENDS Integers, Sequences, FiniteSets, TLC

VARIABLES
    config,      \* MakerCheckerOrchestrator.config, loaded at construction
    persisted,   \* the state file of the change (.maker-checker-state/<repo>_pr_<n>.json)
    state,       \* the IterationState object a run works on
    pc,          \* position of MakerCheckerOrchestrator.run / runIterations
    review,      \* codexReview of the current iteration
    ciStatus,    \* result of github.getCIStatus in the current iteration
    decision,    \* MergeDecision of the current iteration
    stopReason,  \* which exit of the while loop of runIterations was taken
    merged,      \* github.mergePR has been called
    claudeResponse, \* claudeResponse of the current iteration
    runLog,      \* the collaborator calls of the run: counts, and the costs returned
    costLog,     \* the monthly cost log of CostTracker (.maker-checker-costs/<month>.log)
    prTracking,  \* the per-change cost files of CostTracker (pr_<repo>_<n>.json)
    writers,     \* the processes that call CostTracker.recordCost, each with its locals
    issued,      \* per change, the costs of the recordCost calls that have returned
    clock,       \* Date.now(), in ticks of 30 seconds
    requests,    \* RateLimiter.requests: the timestamps kept per window
    callers,     \* the pending RateLimiter.execute calls, each with its locals
    cache,       \* SemanticCache.cache: the Map entries in insertion order
    cacheFile,   \* the entries last written to config.storagePath
    setters,     \* the pending SemanticCache.set calls, each with its locals
    args,        \* arguments of a component call (component specifications)
    result       \* value returned by that call

vars == <<config, persisted, state, pc, review, ciStatus, decision,
          stopReason, merged, claudeResponse, runLog, costLog, prTracking,
          writers, issued, clock, requests, callers, cache, cacheFile, setters,
          args, result>>

orchVars == <<config, persisted, state, pc, review, ciStatus, decision,
              stopReason, merged, claudeResponse, runLog>>

costVars == <<costLog, prTracking, writers, issued>>

scalabilityVars == <<clock, requests, callers, cache, cacheFile, setters>>

None == "none"

\* the value of a record-valued variable that holds no record
Absent == [absent |-> TRUE]

-----------------------------------------------------------------------------
(* Bounds of the model *)

MaxIter == 3          \* largest config.maxIterations
MaxIssues == 1        \* longest issuesFound list of a Checker result
MaxSecIssues == 1     \* longest securityIssues list of a Checker result
MaxHist == 3          \* longest history given to ConvergenceDetector
MaxCalls == 3         \* most recordCost calls made in all
MaxClock == 3         \* last tick of the clock (RateLimiter, SemanticCache)
MaxPatternHist == 5   \* longest history given to detectSuspiciousPatterns

(* Program constants: MakerCheckerOrchestrator.getDefaultConfig *)

QualityThreshold == 85
AutoMergeThreshold == 90
MaxCostPerPR == 5

(* ConvergenceDetector constructor default *)
StagnationThreshold == 3

-----------------------------------------------------------------------------
(* Helpers *)

Min(a, b) == IF a < b THEN a ELSE b
Max(a, b) == IF a > b THEN a ELSE b
Abs(a) == IF a < 0 THEN -a ELSE a

RECURSIVE SumSeq(_)
SumSeq(s) == IF s = <<>> THEN 0 ELSE Head(s) + SumSeq(Tail(s))

SeqsUpTo(S, n) == UNION {[1..k -> S] : k \in 0..n}

\* Array.prototype.slice(-n)
SliceLast(s, n) == IF Len(s) <= n THEN s ELSE SubSeq(s, Len(s) - n + 1, Len(s))

-----------------------------------------------------------------------------
(* types.ts *)

Phases == {"waiting", "codex_review", "claude_response", "re_review", "complete", "failed"}
TerminalPhases == {"complete", "failed"}
IssueTypes == {"security", "performance", "type_safety", "code_quality", "best_practice"}
Severities == {"error", "warning", "info"}
SecSeverities == {"critical", "high", "medium", "low"}
Impacts == {"high", "medium", "low"}
CIStatuses == {"success", "pending", "failure", "error"}

-----------------------------------------------------------------------------
(* QualityAnalyzer (quality-analyzer.ts) *)

IssuePenalty(issue) ==
    IF issue.severity = "error" THEN 10
    ELSE IF issue.severity = "warning" THEN 5
    ELSE 2

SecurityPenalty(issue) ==
    IF issue.severity = "critical" THEN 20
    ELSE IF issue.severity = "high" THEN 15
    ELSE 0

PerformancePenalty(issue) == IF issue.impact = "high" THEN 10 ELSE 0

calculatePenalties(rv) ==
    SumSeq([i \in 1..Len(rv.issuesFound) |-> IssuePenalty(rv.issuesFound[i])])
    + SumSeq([i \in 1..Len(rv.securityIssues) |-> SecurityPenalty(rv.securityIssues[i])])
    + SumSeq([i \in 1..Len(rv.performanceIssues) |->
                 PerformancePenalty(rv.performanceIssues[i])])

\* the mutant: the subtraction without the clamps
calculateQualityScore_NoClamp(rv) ==
    IF rv.status = "error" THEN 0
    ELSE rv.overallQuality - calculatePenalties(rv)

calculateQualityScore(rv) ==
    IF rv.status = "error" THEN 0
    ELSE LET score == Max(0, rv.overallQuality - calculatePenalties(rv))
         IN  Min(100, Max(0, score))

meetsThreshold(score, threshold) == score >= threshold

\* penalty of one issue in its category, in hundredths
CategoryPenalty(issue) ==
    IF issue.severity = "error" THEN 15
    ELSE IF issue.severity = "warning" THEN 8
    ELSE 3

calculateCategoryScore(issues) ==
    IF Len(issues) = 0 THEN 100
    ELSE Max(0, 100 - SumSeq([i \in 1..Len(issues) |-> CategoryPenalty(issues[i])]))

IssuesOfType(issues, t) == SelectSeq(issues, LAMBDA i : i.type = t)

\* overallScore is the weighted sum in hundredths, rounded down: it is only
\* compared with thresholds that are whole hundredths, and x < T exactly when
\* floor(x) < T for a whole T
calculateMetrics(rv) ==
    LET issues == rv.issuesFound
        security == calculateCategoryScore(IssuesOfType(issues, "security"))
        performance == calculateCategoryScore(IssuesOfType(issues, "performance"))
        typeSafety == calculateCategoryScore(IssuesOfType(issues, "type_safety"))
        codeQuality == calculateCategoryScore(IssuesOfType(issues, "code_quality"))
        bestPractices == calculateCategoryScore(IssuesOfType(issues, "best_practice"))
    IN  [overallScore  |-> (security * 25 + performance * 20 + typeSafety * 20
                              + codeQuality * 20 + bestPractices * 15) \div 100,
         codeQuality   |-> codeQuality,
         security      |-> security,
         performance   |-> performance,
         typeSafety    |-> typeSafety,
         bestPractices |-> bestPractices]

\* The records of state.history carry no qualityScore field (types.ts
\* IterationRecord), so h.qualityScore is undefined and every comparison
\* undefined > undefined is false.
Undefined == "undefined"
RecordQualityScore(h) == Undefined
JsGreater(a, b) == a # Undefined /\ b # Undefined /\ a > b

isImproving(history) ==
    IF Len(history) < 2 THEN TRUE
    ELSE LET recentHistory == SliceLast(history, 3)
             improvementCount ==
                 Cardinality({i \in 2..Len(recentHistory) :
                     JsGreater(RecordQualityScore(recentHistory[i]),
                               RecordQualityScore(recentHistory[i - 1]))})
         IN  \* Math.ceil(recentHistory.length / 2)
             improvementCount >= (Len(recentHistory) + 1) \div 2

-----------------------------------------------------------------------------
(* MergeDecider (merge-decider.ts) *)

\* the mutant: the iteration rule fires one iteration early
requiresHumanApproval_OffByOne(st, rv, qualityMet, ci, cfg) ==
    LET rules == cfg.requireHumanApprovalIf
    IN  \/ (rules.qualityScoreBelow # 0 /\ st.qualityScore < rules.qualityScoreBelow)
        \/ (rules.securityIssuesFound /\ Len(rv.securityIssues) > 0)
        \/ (rules.iterationsExceeded /\ st.currentIteration + 1 >= st.maxIterations)
        \/ (rules.costExceeded /\ st.totalCost >= cfg.maxCostPerPR)
        \/ (rules.tests_failing /\ ci # "success")

\* the mutant: the iteration rule is left out
requiresHumanApproval_IterationRuleDropped(st, rv, qualityMet, ci, cfg) ==
    LET rules == cfg.requireHumanApprovalIf
    IN  \/ (rules.qualityScoreBelow # 0 /\ st.qualityScore < rules.qualityScoreBelow)
        \/ (rules.securityIssuesFound /\ Len(rv.securityIssues) > 0)
        \/ (rules.costExceeded /\ st.totalCost >= cfg.maxCostPerPR)
        \/ (rules.tests_failing /\ ci # "success")

requiresHumanApproval(st, rv, qualityMet, ci, cfg) ==
    LET rules == cfg.requireHumanApprovalIf
    IN  \/ (rules.qualityScoreBelow # 0 /\ st.qualityScore < rules.qualityScoreBelow)
        \/ (rules.securityIssuesFound /\ Len(rv.securityIssues) > 0)
        \/ (rules.iterationsExceeded /\ st.currentIteration >= st.maxIterations)
        \/ (rules.costExceeded /\ st.totalCost >= cfg.maxCostPerPR)
        \/ (rules.tests_failing /\ ci # "success")

IsSecurityError(i) == i.type = "security" /\ i.severity = "error"

\* the mutant: the max-iterations reason is never given
shouldMerge_IterationReasonDropped(st, latestReview, ci, cfg) ==
    LET qualityMet == st.qualityScore >= cfg.qualityThreshold
        securityIssues == SelectSeq(latestReview.issuesFound, IsSecurityError)
        blockingIssues == securityIssues
        iterationsExceeded == st.currentIteration >= st.maxIterations
        costExceeded == st.totalCost >= cfg.maxCostPerPR
        isStagnant == st.convergenceStatus = "stagnant"
        reasons ==
            (IF ~qualityMet THEN <<"quality_below_threshold">> ELSE <<>>)
            \o (IF Len(securityIssues) > 0 THEN <<"critical_security_issues">> ELSE <<>>)
            \o (IF ci # "success" THEN <<"ci_status">> ELSE <<>>)
            \o (IF costExceeded THEN <<"cost_exceeded">> ELSE <<>>)
            \o (IF isStagnant /\ ~qualityMet THEN <<"no_improvement">> ELSE <<>>)
        canAutoMerge ==
            /\ cfg.autoMergeEnabled
            /\ qualityMet
            /\ st.qualityScore >= cfg.autoMergeThreshold
            /\ Len(blockingIssues) = 0
            /\ ci = "success"
            /\ ~costExceeded
        needsHuman == requiresHumanApproval(st, latestReview, qualityMet, ci, cfg)
        merge ==
            \/ canAutoMerge
            \/ (qualityMet /\ Len(blockingIssues) = 0 /\ ci = "success" /\ ~needsHuman)
    IN  [shouldMerge |-> merge,
         reason |-> IF merge
                    THEN [kind |-> "approval", autoMerge |-> canAutoMerge, reasons |-> <<>>]
                    ELSE [kind |-> "blocking", autoMerge |-> FALSE, reasons |-> reasons],
         requiresHumanApproval |-> needsHuman \/ ~canAutoMerge,
         blockingIssues |-> blockingIssues,
         qualityScore |-> st.qualityScore,
         iterationsUsed |-> st.currentIteration,
         totalCost |-> st.totalCost]

\* the mutant: the auto-merge condition does not look at the CI status
shouldMerge_CINotChecked(st, latestReview, ci, cfg) ==
    LET qualityMet == st.qualityScore >= cfg.qualityThreshold
        securityIssues == SelectSeq(latestReview.issuesFound, IsSecurityError)
        blockingIssues == securityIssues
        iterationsExceeded == st.currentIteration >= st.maxIterations
        costExceeded == st.totalCost >= cfg.maxCostPerPR
        isStagnant == st.convergenceStatus = "stagnant"
        reasons ==
            (IF ~qualityMet THEN <<"quality_below_threshold">> ELSE <<>>)
            \o (IF Len(securityIssues) > 0 THEN <<"critical_security_issues">> ELSE <<>>)
            \o (IF ci # "success" THEN <<"ci_status">> ELSE <<>>)
            \o (IF iterationsExceeded /\ ~qualityMet THEN <<"max_iterations">> ELSE <<>>)
            \o (IF costExceeded THEN <<"cost_exceeded">> ELSE <<>>)
            \o (IF isStagnant /\ ~qualityMet THEN <<"no_improvement">> ELSE <<>>)
        canAutoMerge ==
            /\ cfg.autoMergeEnabled
            /\ qualityMet
            /\ st.qualityScore >= cfg.autoMergeThreshold
            /\ Len(blockingIssues) = 0
            /\ ~costExceeded
        needsHuman == requiresHumanApproval(st, latestReview, qualityMet, ci, cfg)
        merge ==
            \/ canAutoMerge
            \/ (qualityMet /\ Len(blockingIssues) = 0 /\ ci = "success" /\ ~needsHuman)
    IN  [shouldMerge |-> merge,
         reason |-> IF merge
                    THEN [kind |-> "approval", autoMerge |-> canAutoMerge, reasons |-> <<>>]
                    ELSE [kind |-> "blocking", autoMerge |-> FALSE, reasons |-> reasons],
         requiresHumanApproval |-> needsHuman \/ ~canAutoMerge,
         blockingIssues |-> blockingIssues,
         qualityScore |-> st.qualityScore,
         iterationsUsed |-> st.currentIteration,
         totalCost |-> st.totalCost]

\* the mutant: requiresHumanApproval reports the rules alone
shouldMerge_ApprovalFromRulesOnly(st, latestReview, ci, cfg) ==
    LET qualityMet == st.qualityScore >= cfg.qualityThreshold
        securityIssues == SelectSeq(latestReview.issuesFound, IsSecurityError)
        blockingIssues == securityIssues
        iterationsExceeded == st.currentIteration >= st.maxIterations
        costExceeded == st.totalCost >= cfg.maxCostPerPR
        isStagnant == st.convergenceStatus = "stagnant"
        reasons ==
            (IF ~qualityMet THEN <<"quality_below_threshold">> ELSE <<>>)
            \o (IF Len(securityIssues) > 0 THEN <<"critical_security_issues">> ELSE <<>>)
            \o (IF ci # "success" THEN <<"ci_status">> ELSE <<>>)
            \o (IF iterationsExceeded /\ ~qualityMet THEN <<"max_iterations">> ELSE <<>>)
            \o (IF costExceeded THEN <<"cost_exceeded">> ELSE <<>>)
            \o (IF isStagnant /\ ~qualityMet THEN <<"no_improvement">> ELSE <<>>)
        canAutoMerge ==
            /\ cfg.autoMergeEnabled
            /\ qualityMet
            /\ st.qualityScore >= cfg.autoMergeThreshold
            /\ Len(blockingIssues) = 0
            /\ ci = "success"
            /\ ~costExceeded
        needsHuman == requiresHumanApproval(st, latestReview, qualityMet, ci, cfg)
        merge ==
            \/ canAutoMerge
            \/ (qualityMet /\ Len(blockingIssues) = 0 /\ ci = "success" /\ ~needsHuman)
    IN  [shouldMerge |-> merge,
         reason |-> IF merge
                    THEN [kind |-> "approval", autoMerge |-> canAutoMerge, reasons |-> <<>>]
                    ELSE [kind |-> "blocking", autoMerge |-> FALSE, reasons |-> reasons],
         requiresHumanApproval |-> needsHuman,
         blockingIssues |-> blockingIssues,
         qualityScore |-> st.qualityScore,
         iterationsUsed |-> st.currentIteration,
         totalCost |-> st.totalCost]

\* the mutant: approval is required only when a rule fires and auto-merge is off
shouldMerge_ApprovalOnlyWithRule(st, latestReview, ci, cfg) ==
    LET qualityMet == st.qualityScore >= cfg.qualityThreshold
        securityIssues == SelectSeq(latestReview.issuesFound, IsSecurityError)
        blockingIssues == securityIssues
        iterationsExceeded == st.currentIteration >= st.maxIterations
        costExceeded == st.totalCost >= cfg.maxCostPerPR
        isStagnant == st.convergenceStatus = "stagnant"
        reasons ==
            (IF ~qualityMet THEN <<"quality_below_threshold">> ELSE <<>>)
            \o (IF Len(securityIssues) > 0 THEN <<"critical_security_issues">> ELSE <<>>)
            \o (IF ci # "success" THEN <<"ci_status">> ELSE <<>>)
            \o (IF iterationsExceeded /\ ~qualityMet THEN <<"max_iterations">> ELSE <<>>)
            \o (IF costExceeded THEN <<"cost_exceeded">> ELSE <<>>)
            \o (IF isStagnant /\ ~qualityMet THEN <<"no_improvement">> ELSE <<>>)
        canAutoMerge ==
            /\ cfg.autoMergeEnabled
            /\ qualityMet
            /\ st.qualityScore >= cfg.autoMergeThreshold
            /\ Len(blockingIssues) = 0
            /\ ci = "success"
            /\ ~costExceeded
        needsHuman == requiresHumanApproval(st, latestReview, qualityMet, ci, cfg)
        merge ==
            \/ canAutoMerge
            \/ (qualityMet /\ Len(blockingIssues) = 0 /\ ci = "success" /\ ~needsHuman)
    IN  [shouldMerge |-> merge,
         reason |-> IF merge
                    THEN [kind |-> "approval", autoMerge |-> canAutoMerge, reasons |-> <<>>]
                    ELSE [kind |-> "blocking", autoMerge |-> FALSE, reasons |-> reasons],
         requiresHumanApproval |-> needsHuman /\ ~canAutoMerge,
         blockingIssues |-> blockingIssues,
         qualityScore |-> st.qualityScore,
         iterationsUsed |-> st.currentIteration,
         totalCost |-> st.totalCost]

shouldMerge(st, latestReview, ci, cfg) ==
    LET qualityMet == st.qualityScore >= cfg.qualityThreshold
        securityIssues == SelectSeq(latestReview.issuesFound, IsSecurityError)
        blockingIssues == securityIssues
        iterationsExceeded == st.currentIteration >= st.maxIterations
        costExceeded == st.totalCost >= cfg.maxCostPerPR
        isStagnant == st.convergenceStatus = "stagnant"
        reasons ==
            (IF ~qualityMet THEN <<"quality_below_threshold">> ELSE <<>>)
            \o (IF Len(securityIssues) > 0 THEN <<"critical_security_issues">> ELSE <<>>)
            \o (IF ci # "success" THEN <<"ci_status">> ELSE <<>>)
            \o (IF iterationsExceeded /\ ~qualityMet THEN <<"max_iterations">> ELSE <<>>)
            \o (IF costExceeded THEN <<"cost_exceeded">> ELSE <<>>)
            \o (IF isStagnant /\ ~qualityMet THEN <<"no_improvement">> ELSE <<>>)
        canAutoMerge ==
            /\ cfg.autoMergeEnabled
            /\ qualityMet
            /\ st.qualityScore >= cfg.autoMergeThreshold
            /\ Len(blockingIssues) = 0
            /\ ci = "success"
            /\ ~costExceeded
        needsHuman == requiresHumanApproval(st, latestReview, qualityMet, ci, cfg)
        merge ==
            \/ canAutoMerge
            \/ (qualityMet /\ Len(blockingIssues) = 0 /\ ci = "success" /\ ~needsHuman)
    IN  [shouldMerge |-> merge,
         reason |-> IF merge
                    THEN [kind |-> "approval", autoMerge |-> canAutoMerge, reasons |-> <<>>]
                    ELSE [kind |-> "blocking", autoMerge |-> FALSE, reasons |-> reasons],
         requiresHumanApproval |-> needsHuman \/ ~canAutoMerge,
         blockingIssues |-> blockingIssues,
         qualityScore |-> st.qualityScore,
         iterationsUsed |-> st.currentIteration,
         totalCost |-> st.totalCost]

-----------------------------------------------------------------------------
(* IterationLimiter (convergence-detector.ts) *)

\* the mutant: the cost check left out
canStartIteration_NoCostCheck(st, cfg) ==
    IF st.currentIteration >= st.maxIterations
    THEN [allowed |-> FALSE, reason |-> "max_iterations"]
    ELSE IF st.currentPhase = "complete" \/ st.currentPhase = "failed"
    THEN [allowed |-> FALSE, reason |-> "terminal_state"]
    ELSE [allowed |-> TRUE, reason |-> None]

canStartIteration(st, cfg) ==
    IF st.currentIteration >= st.maxIterations
    THEN [allowed |-> FALSE, reason |-> "max_iterations"]
    ELSE IF st.currentPhase = "complete" \/ st.currentPhase = "failed"
    THEN [allowed |-> FALSE, reason |-> "terminal_state"]
    ELSE IF st.totalCost >= cfg.maxCostPerPR
    THEN [allowed |-> FALSE, reason |-> "cost_limit"]
    ELSE [allowed |-> TRUE, reason |-> None]

-----------------------------------------------------------------------------
(* ConvergenceDetector (convergence-detector.ts) *)

\* The hundredths b in 0..98 for which the double (b+2)/100 - b/100 is
\* greater than the double 0.02 (it is not for the others, where the
\* difference rounds to 0.02 or below).
FloatDeltaAbove002 ==
    {3, 5, 6, 8, 9, 11, 12, 15, 18, 21, 24, 25, 26, 29, 30, 31, 32, 35, 36, 37,
     38, 41, 42, 43, 44, 47, 48, 49, 50, 51, 52, 53, 54, 57, 58, 59, 60, 61, 62,
     63, 64, 65, 66, 69, 70, 71, 72, 73, 74, 75, 76, 77, 78, 79, 82, 83, 84, 85,
     86, 87, 88, 89, 90, 91, 94, 95, 96, 97, 98}

\* The hundredths f for which the double ((f + 5n)/100 - f/100) / n is
\* greater than the double 0.05, for a window of n = 2 and of n = 3 records.
FloatTrendAbove005(n) ==
    IF n = 2
    THEN {18, 24, 29, 30, 35, 36, 41, 42, 43, 44, 45, 46, 57, 58, 69, 70, 71, 82, 83}
    ELSE {2, 5, 8, 11, 12, 13, 18, 19, 24, 25, 29, 30, 31, 35, 36, 37, 38, 39, 40,
          41, 47, 48, 49, 50, 51, 52, 53, 57, 58, 59, 60, 61, 62, 63, 64, 65, 66,
          69, 70, 71, 72, 73, 74, 75, 76, 77, 78, 82, 83, 84, 85}

\* qualities[i] - qualities[i - 1] > 0.02
DeltaAbove002(curr, prev) ==
    \/ curr - prev > 2
    \/ (curr - prev = 2 /\ prev \in FloatDeltaAbove002)

\* qualities[i] - qualities[i - 1] < -0.02
DeltaBelowMinus002(curr, prev) == DeltaAbove002(prev, curr)

\* h.codexReview?.overallQuality || 0
RecordQuality(h) == h.overallQuality

\* the mutant: every non-zero delta counts as a step, without the 0.02 tolerance
analyzeQualityTrend_NoTolerance(history) ==
    LET qualities == [i \in 1..Len(history) |-> RecordQuality(history[i])]
        steps == 2..Len(qualities)
        improvingCount == Cardinality({i \in steps : qualities[i] > qualities[i - 1]})
        regressingCount == Cardinality({i \in steps : qualities[i] < qualities[i - 1]})
        sameCount == Cardinality(steps) - improvingCount - regressingCount
    IN  [improving  |-> improvingCount > regressingCount /\ improvingCount > 0,
         stagnant   |-> sameCount >= Len(qualities) - 1,
         regressing |-> regressingCount > improvingCount]

analyzeQualityTrend(history) ==
    LET qualities == [i \in 1..Len(history) |-> RecordQuality(history[i])]
        steps == 2..Len(qualities)
        improvingCount ==
            Cardinality({i \in steps : DeltaAbove002(qualities[i], qualities[i - 1])})
        regressingCount ==
            Cardinality({i \in steps : DeltaBelowMinus002(qualities[i], qualities[i - 1])})
        sameCount == Cardinality(steps) - improvingCount - regressingCount
    IN  [improving  |-> improvingCount > regressingCount /\ improvingCount > 0,
         stagnant   |-> sameCount >= Len(qualities) - 1,
         regressing |-> regressingCount > improvingCount]

analyzeIssueTrend(history) ==
    LET issueCounts == [i \in 1..Len(history) |-> history[i].issuesFound]
        steps == 2..Len(issueCounts)
        decreasingCount == Cardinality({i \in steps : issueCounts[i] < issueCounts[i - 1]})
        increasingCount == Cardinality({i \in steps : issueCounts[i] > issueCounts[i - 1]})
        sameCount == Cardinality(steps) - decreasingCount - increasingCount
    IN  [decreasing |-> decreasingCount > increasingCount,
         stagnant   |-> sameCount >= Len(issueCounts) - 1,
         increasing |-> increasingCount > decreasingCount]

\* (lastQuality - firstQuality) / history.length, kept as the exact
\* numerator and denominator; above is TRUE when the double quotient lies
\* beyond 0.05 in magnitude although the exact quotient equals 0.05.
calculateOverallTrend(history) ==
    IF Len(history) < 2 THEN [diff |-> 0, len |-> 1, above |-> FALSE]
    ELSE LET firstQuality == RecordQuality(history[1])
             lastQuality == RecordQuality(history[Len(history)])
         IN  [diff  |-> lastQuality - firstQuality,
              len   |-> Len(history),
              above |-> /\ Abs(lastQuality - firstQuality) = 5 * Len(history)
                        /\ Min(firstQuality, lastQuality)
                               \in FloatTrendAbove005(Len(history))]

\* overallTrend > 0.05
TrendAbove005(t) == t.diff > 5 * t.len \/ (t.diff = 5 * t.len /\ t.above)

\* Math.abs(overallTrend) <= 0.05
TrendWithin005(t) ==
    Abs(t.diff) < 5 * t.len \/ (Abs(t.diff) = 5 * t.len /\ ~t.above)

Verdict(s, c, r) == [status |-> s, confidence |-> c, reason |-> r]

\* the mutant: only an empty history takes the early return
detectConvergence_OneEntryAnalysed(history) ==
    IF Len(history) < 1
    THEN Verdict("improving", 50, "not_enough_iterations")
    ELSE LET recentHistory == SliceLast(history, StagnationThreshold)
             qualityTrend == analyzeQualityTrend(recentHistory)
             issueTrend == analyzeIssueTrend(recentHistory)
             overallTrend == calculateOverallTrend(recentHistory)
         IN  IF qualityTrend.improving /\ issueTrend.decreasing
             THEN Verdict("improving", 90, "quality_up_issues_down")
             ELSE IF qualityTrend.stagnant /\ issueTrend.stagnant
             THEN Verdict("stagnant", 85, "no_improvement")
             ELSE IF qualityTrend.regressing \/ issueTrend.increasing
             THEN Verdict("regressing", 80, "quality_down_or_issues_up")
             ELSE IF TrendAbove005(overallTrend)
             THEN Verdict("improving", 60, "slow_improvement")
             ELSE IF TrendWithin005(overallTrend)
             THEN Verdict("stagnant", 70, "minimal_change")
             ELSE Verdict("regressing", 70, "overall_negative")

detectConvergence(history) ==
    IF Len(history) < 2
    THEN Verdict("improving", 50, "not_enough_iterations")
    ELSE LET recentHistory == SliceLast(history, StagnationThreshold)
             qualityTrend == analyzeQualityTrend(recentHistory)
             issueTrend == analyzeIssueTrend(recentHistory)
             overallTrend == calculateOverallTrend(recentHistory)
         IN  IF qualityTrend.improving /\ issueTrend.decreasing
             THEN Verdict("improving", 90, "quality_up_issues_down")
             ELSE IF qualityTrend.stagnant /\ issueTrend.stagnant
             THEN Verdict("stagnant", 85, "no_improvement")
             ELSE IF qualityTrend.regressing \/ issueTrend.increasing
             THEN Verdict("regressing", 80, "quality_down_or_issues_up")
             ELSE IF TrendAbove005(overallTrend)
             THEN Verdict("improving", 60, "slow_improvement")
             ELSE IF TrendWithin005(overallTrend)
             THEN Verdict("stagnant", 70, "minimal_change")
             ELSE Verdict("regressing", 70, "overall_negative")

-----------------------------------------------------------------------------
(* ConvergenceDetector.predictConvergence *)

\* Math.ceil(a / b) for a >= 0 and b > 0
CeilDiv(a, b) == (a + b - 1) \div b

\* improvements: currQuality - prevQuality of each pair of neighbours (hundredths)
Improvements(history) ==
    [i \in 1..(Len(history) - 1) |->
        RecordQuality(history[i + 1]) - RecordQuality(history[i])]

\* calculateVariance as the fraction num / den of 1.0 (values in hundredths):
\* sum((v - mean)^2) / n with mean = sum(v) / n
calculateVariance(values) ==
    LET n == Len(values)
        squares == [i \in 1..n |-> values[i] * values[i]]
    IN  IF n = 0 THEN [num |-> 0, den |-> 1]
        ELSE [num |-> n * SumSeq(squares) - SumSeq(values) * SumSeq(values),
              den |-> n * n * 10000]

Prediction(w, e, c) == [willReach |-> w, estimatedIterations |-> e, confidence |-> c]

predictConvergence(st, targetQuality) ==
    IF st.qualityScore >= targetQuality
    THEN Prediction(TRUE, 0, [num |-> 10, den |-> 10])
    ELSE IF Len(st.history) < 2
    THEN Prediction(TRUE, st.maxIterations - st.currentIteration, [num |-> 3, den |-> 10])
    ELSE LET improvements == Improvements(st.history)
             \* avgImprovement = sum / length; its sign is the sign of the sum
             sum == SumSeq(improvements)
         IN  IF sum <= 0
             THEN Prediction(FALSE, -1, [num |-> 9, den |-> 10])
             ELSE LET neededImprovement == targetQuality - st.qualityScore
                      estimatedIterations ==
                          CeilDiv(neededImprovement * Len(improvements), sum)
                      iterationsRemaining == st.maxIterations - st.currentIteration
                      improvementVariance == calculateVariance(improvements)
                      rest == [num |-> improvementVariance.den - improvementVariance.num,
                               den |-> improvementVariance.den]
                  IN  Prediction(estimatedIterations <= iterationsRemaining,
                                 estimatedIterations,
                                 IF 10 * rest.num >= 4 * rest.den
                                 THEN rest ELSE [num |-> 4, den |-> 10])

-----------------------------------------------------------------------------
(* IterationLimiter.willLikelyExceedLimit (convergence-detector.ts) *)

getIterationsRemaining(st) == Max(0, st.maxIterations - st.currentIteration)

willLikelyExceedLimit(st, currentQuality, targetQuality) ==
    IF currentQuality >= targetQuality THEN FALSE
    ELSE IF Len(st.history) < 2 THEN FALSE
    ELSE LET improvements == SelectSeq(Improvements(st.history), LAMBDA delta : delta > 0)
         IN  IF Len(improvements) = 0 THEN TRUE
             ELSE LET \* avgImprovement = sum / length
                      neededImprovement == targetQuality - currentQuality
                      estimatedIterationsNeeded ==
                          CeilDiv(neededImprovement * Len(improvements),
                                  SumSeq(improvements))
                      iterationsRemaining == getIterationsRemaining(st)
                  IN  estimatedIterationsNeeded > iterationsRemaining

-----------------------------------------------------------------------------
(* IterationLimiter.detectSuspiciousPatterns (convergence-detector.ts) *)

\* the mutant: equal issue counts of 0 are reported too
detectSuspiciousPatterns_ZeroCounts(st) ==
    LET history == st.history
        recentIssues == [i \in 1..Len(SliceLast(history, 3)) |->
                            SliceLast(history, 3)[i].issuesFound]
        allSame == \A i \in 1..Len(recentIssues) : recentIssues[i] = recentIssues[1]
        stagnation == Len(history) >= 3 /\ allSame
        recentQuality == [i \in 1..Len(SliceLast(history, 4)) |->
                             RecordQuality(SliceLast(history, 4)[i])]
        oscillations ==
            Cardinality({i \in 2..(Len(recentQuality) - 1) :
                \/ (recentQuality[i] > recentQuality[i - 1]
                      /\ recentQuality[i] > recentQuality[i + 1])
                \/ (recentQuality[i] < recentQuality[i - 1]
                      /\ recentQuality[i] < recentQuality[i + 1])})
        oscillating == Len(history) >= 4 /\ oscillations >= 2
        recentTimestamps == [i \in 1..Len(SliceLast(history, 5)) |->
                                SliceLast(history, 5)[i].timestamp]
        intervals == [i \in 1..(Len(recentTimestamps) - 1) |->
                         recentTimestamps[i + 1] - recentTimestamps[i]]
        \* avgInterval < 30000 ms
        rapid == Len(history) >= 5 /\ SumSeq(intervals) < 30 * Len(intervals)
        warnings ==
            (IF stagnation THEN <<"same_issue_count">> ELSE <<>>)
            \o (IF oscillating THEN <<"oscillating">> ELSE <<>>)
            \o (IF rapid THEN <<"rapid_iterations">> ELSE <<>>)
    IN  [suspicious |-> Len(warnings) > 0, warnings |-> warnings]

\* IterationLimiter.detectSuspiciousPatterns; timestamps in seconds
detectSuspiciousPatterns(st) ==
    LET history == st.history
        recentIssues == [i \in 1..Len(SliceLast(history, 3)) |->
                            SliceLast(history, 3)[i].issuesFound]
        allSame == \A i \in 1..Len(recentIssues) : recentIssues[i] = recentIssues[1]
        stagnation == Len(history) >= 3 /\ allSame /\ recentIssues[1] > 0
        recentQuality == [i \in 1..Len(SliceLast(history, 4)) |->
                             RecordQuality(SliceLast(history, 4)[i])]
        oscillations ==
            Cardinality({i \in 2..(Len(recentQuality) - 1) :
                \/ (recentQuality[i] > recentQuality[i - 1]
                      /\ recentQuality[i] > recentQuality[i + 1])
                \/ (recentQuality[i] < recentQuality[i - 1]
                      /\ recentQuality[i] < recentQuality[i + 1])})
        oscillating == Len(history) >= 4 /\ oscillations >= 2
        recentTimestamps == [i \in 1..Len(SliceLast(history, 5)) |->
                                SliceLast(history, 5)[i].timestamp]
        intervals == [i \in 1..(Len(recentTimestamps) - 1) |->
                         recentTimestamps[i + 1] - recentTimestamps[i]]
        \* avgInterval < 30000 ms
        rapid == Len(history) >= 5 /\ SumSeq(intervals) < 30 * Len(intervals)
        warnings ==
            (IF stagnation THEN <<"same_issue_count">> ELSE <<>>)
            \o (IF oscillating THEN <<"oscillating">> ELSE <<>>)
            \o (IF rapid THEN <<"rapid_iterations">> ELSE <<>>)
    IN  [suspicious |-> Len(warnings) > 0, warnings |-> warnings]

-----------------------------------------------------------------------------
(* QualityGates.checkGates (convergence-detector.ts) *)

\* one entry of failedGates or of warnings, by the condition that pushed it
PushIf(cond, tag) == IF cond THEN <<tag>> ELSE <<>>

\* array.filter(...).length
CountWhere(s, Test(_)) == Cardinality({i \in 1..Len(s) : Test(s[i])})

IsCriticalOrHigh(issue) == issue.severity \in {"critical", "high"}
IsErrorIssue(issue) == issue.severity = "error"
IsWarningIssue(issue) == issue.severity = "warning"

GateResult(failedGates, warnings) ==
    [passed |-> Len(failedGates) = 0, failedGates |-> failedGates, warnings |-> warnings]

\* the mutant: a warning fails the gates too
checkGates_WarningsBlock(rv, metrics, ci, cfg) ==
    LET failedGates ==
            PushIf(metrics.overallScore < cfg.qualityThreshold, "quality_threshold")
            \o PushIf(CountWhere(rv.securityIssues, IsCriticalOrHigh) > 0, "security_issues")
            \o PushIf(metrics.security < 70, "security_score")
            \o PushIf(CountWhere(rv.issuesFound, IsErrorIssue) > 0, "error_issues")
            \o PushIf(ci # "success", "ci_status")
        warnings ==
            PushIf(metrics.performance < 70, "performance")
            \o PushIf(metrics.typeSafety < 80, "type_safety")
            \o PushIf(metrics.codeQuality < 75, "code_quality")
            \o PushIf(CountWhere(rv.issuesFound, IsWarningIssue) > 10, "warning_issues")
    IN  GateResult(failedGates \o warnings, warnings)

checkGates(rv, metrics, ci, cfg) ==
    LET failedGates ==
            PushIf(metrics.overallScore < cfg.qualityThreshold, "quality_threshold")
            \o PushIf(CountWhere(rv.securityIssues, IsCriticalOrHigh) > 0, "security_issues")
            \o PushIf(metrics.security < 70, "security_score")
            \o PushIf(CountWhere(rv.issuesFound, IsErrorIssue) > 0, "error_issues")
            \o PushIf(ci # "success", "ci_status")
        warnings ==
            PushIf(metrics.performance < 70, "performance")
            \o PushIf(metrics.typeSafety < 80, "type_safety")
            \o PushIf(metrics.codeQuality < 75, "code_quality")
            \o PushIf(CountWhere(rv.issuesFound, IsWarningIssue) > 10, "warning_issues")
    IN  GateResult(failedGates, warnings)

isAutoMergeSafe(rv, metrics, ci, cfg) ==
    LET autoMergeThreshold == cfg.autoMergeThreshold
    IN  /\ metrics.overallScore >= autoMergeThreshold
        /\ metrics.security >= 90
        /\ Len(rv.securityIssues) = 0
        /\ CountWhere(rv.issuesFound, IsErrorIssue) = 0
        /\ ci = "success"

-----------------------------------------------------------------------------
(* StateManager (state-manager.ts) *)

initializeState(cfg) ==
    [currentIteration  |-> 0,
     maxIterations     |-> cfg.maxIterations,
     history           |-> <<>>,
     currentPhase      |-> "waiting",
     qualityScore      |-> 0,
     convergenceStatus |-> "improving",
     totalCost         |-> 0]

\* the content of a state file that JSON.parse rejects
Unparsable == [unparsable |-> TRUE]

\* null (Absent) when the file does not exist or JSON.parse throws, else the
\* parsed content
getState(file) ==
    IF file = Absent THEN Absent
    ELSE IF file = Unparsable THEN Absent
    ELSE file

updatePhase(st, phase) == [st EXCEPT !.currentPhase = phase]

startIteration(st) ==
    [st EXCEPT !.currentIteration = @ + 1, !.currentPhase = "codex_review"]

\* the mutant: the cost of the record is not added
recordIteration_CostDropped(st, record) ==
    [st EXCEPT !.history = Append(@, record),
               !.qualityScore = IF record.overallQuality # 0
                                THEN record.overallQuality ELSE @]

recordIteration(st, record) ==
    [st EXCEPT !.history = Append(@, record),
               !.totalCost = @ + record.cost,
               \* record.codexReview?.overallQuality || state.qualityScore
               !.qualityScore = IF record.overallQuality # 0
                                THEN record.overallQuality ELSE @]

updateConvergence(st, status) == [st EXCEPT !.convergenceStatus = status]

complete(st, success) ==
    [st EXCEPT !.currentPhase = IF success THEN "complete" ELSE "failed"]

\* The record the orchestrator passes to recordIteration; of codexReview,
\* only overallQuality is read back from the history.
IterationRecord(st, rv, fixed, cost) ==
    [iteration      |-> st.currentIteration,
     overallQuality |-> rv.overallQuality,
     issuesFound    |-> Len(rv.issuesFound),
     issuesFixed    |-> fixed,
     cost           |-> cost]

-----------------------------------------------------------------------------
(* CostTracker (cost-tracker.ts) *)

\* the changes costs are recorded for, and the processes that record them
PRs == {1, 2}
Writers == {"w1", "w2"}

CostTracking(pr, claudeCost, codexCost) ==
    [prNumber   |-> pr,
     totalCost  |-> claudeCost + codexCost,
     claudeCost |-> claudeCost,
     codexCost  |-> codexCost,
     iterations |-> 1]

\* getMonthlyCost: the sum over the lines of the log of the month
getMonthlyCost(log) == SumSeq([i \in 1..Len(log) |-> log[i].totalCost])

\* getPRTracking: the content of the file of the change, or null
getPRTracking(files, pr) == files[pr]

getPRCost(files, pr) ==
    IF getPRTracking(files, pr) = Absent THEN 0 ELSE getPRTracking(files, pr).totalCost

\* the mutant: the limit is exceeded only above the cap
hasExceededPRLimit_Strict(files, pr, cfg) ==
    LET tracking == getPRTracking(files, pr)
    IN  IF tracking = Absent THEN FALSE
        ELSE tracking.totalCost > cfg.maxCostPerPR

hasExceededPRLimit(files, pr, cfg) ==
    LET tracking == getPRTracking(files, pr)
    IN  IF tracking = Absent THEN FALSE
        ELSE tracking.totalCost >= cfg.maxCostPerPR

\* percentage = monthlyCost / monthlyCostCap * 100, kept as numerator and
\* denominator; for the whole-unit costs and the caps of the model the double
\* quotient is exact.
checkMonthlyLimit(log, cfg) ==
    LET monthlyCost == getMonthlyCost(log)
    IN  [exceeded   |-> monthlyCost >= cfg.monthlyCostCap,
         warning    |-> monthlyCost * 100 >= 75 * cfg.monthlyCostCap,
         totalCost  |-> monthlyCost,
         limit      |-> cfg.monthlyCostCap,
         percentage |-> [num |-> monthlyCost * 100, den |-> cfg.monthlyCostCap]]

\* appendToDailyLog: one appended line
appendToDailyLog(log, tracking) == Append(log, tracking)

\* updatePRTracking, from the content read to the content written
mergePRTracking(existing, tracking) ==
    IF existing # Absent
    THEN [existing EXCEPT !.totalCost = @ + tracking.totalCost,
                          !.claudeCost = @ + tracking.claudeCost,
                          !.codexCost = @ + tracking.codexCost,
                          !.iterations = @ + 1]
    ELSE tracking

IdleWriter == [pc |-> "idle", tracking |-> Absent, existing |-> Absent]

\* no cost has been recorded and no process is recording
NoCostRecorded ==
    /\ costLog = <<>>
    /\ prTracking = [p \in PRs |-> Absent]
    /\ writers = [w \in Writers |-> IdleWriter]
    /\ issued = [p \in PRs |-> 0]

-----------------------------------------------------------------------------

(* RateLimiter (scalability/rate-limiter.ts) *)

\* the RateLimitConfig the limiter is constructed with
RequestsPerMinute == 1
RequestsPerHour == 2
RequestsPerDay == 3

\* the windows and the default timeoutMs of waitForSlot, in ticks of 30 seconds
MinuteTicks == 2
HourTicks == 120
DayTicks == 2880
TimeoutTicks == 2

Callers == {"c1", "c2"}

NoRequests == [minute |-> <<>>, hour |-> <<>>, day |-> <<>>]

IdleCaller == [pc |-> "idle", startTime |-> 0, allowed |-> FALSE]

\* requests.filter((r) => r > new Date(now - window))
Newer(times, now, window) == SelectSeq(times, LAMBDA r : r > now - window)

cleanOldRequests(reqs, now) ==
    [minute |-> Newer(reqs.minute, now, MinuteTicks),
     hour   |-> Newer(reqs.hour, now, HourTicks),
     day    |-> Newer(reqs.day, now, DayTicks)]

\* check(), on the requests already cleaned
RateLimitStatus(reqs) ==
    LET minuteCount == Len(reqs.minute)
        hourCount == Len(reqs.hour)
        dayCount == Len(reqs.day)
    IN  [allowed   |-> /\ minuteCount < RequestsPerMinute
                       /\ hourCount < RequestsPerHour
                       /\ dayCount < RequestsPerDay,
         remaining |-> [perMinute |-> Max(0, RequestsPerMinute - minuteCount),
                        perHour   |-> Max(0, RequestsPerHour - hourCount),
                        perDay    |-> Max(0, RequestsPerDay - dayCount)]]

record(reqs, now) ==
    [minute |-> Append(reqs.minute, now),
     hour   |-> Append(reqs.hour, now),
     day    |-> Append(reqs.day, now)]

-----------------------------------------------------------------------------
(* SemanticCache *)

\* config.maxEntries
MaxEntries == 2

Keys == {"k1", "k2", "k3"}
Setters == {"s1", "s2"}

IdleSetter == [pc |-> "idle", key |-> None, snapshot |-> <<>>]

CacheEntry(key, now) == [key |-> key, lastAccessedAt |-> now]

CacheKeys(entries) == {entries[i].key : i \in 1..Len(entries)}

\* evictLRU: the first entry, in Map order, whose lastAccessedAt is below every
\* earlier one's; 0 when the Map is empty
lruIndex(entries) ==
    IF Len(entries) = 0 THEN 0
    ELSE CHOOSE i \in 1..Len(entries) :
            /\ \A j \in 1..Len(entries) :
                   entries[i].lastAccessedAt <= entries[j].lastAccessedAt
            /\ \A j \in 1..(i - 1) :
                   entries[j].lastAccessedAt > entries[i].lastAccessedAt

\* this.cache.delete(lruKey)
deleteAt(entries, n) ==
    [i \in 1..(Len(entries) - 1) |-> IF i < n THEN entries[i] ELSE entries[i + 1]]

\* this.cache.set(key, entry): an existing key keeps its place in the Map
cacheSet(entries, entry) ==
    IF entry.key \in CacheKeys(entries)
    THEN [i \in 1..Len(entries) |->
             IF entries[i].key = entry.key THEN entry ELSE entries[i]]
    ELSE Append(entries, entry)

\* no request made, no cache entry set, nothing pending
NoScalabilityUse ==
    /\ clock = 0
    /\ requests = NoRequests
    /\ callers = [c \in Callers |-> IdleCaller]
    /\ cache = <<>>
    /\ cacheFile = <<>>
    /\ setters = [s \in Setters |-> IdleSetter]

-----------------------------------------------------------------------------
(* Configurations and collaborator results *)

Rules(floor, sec, iter, cost, tests) ==
    [qualityScoreBelow   |-> floor,
     securityIssuesFound |-> sec,
     iterationsExceeded  |-> iter,
     costExceeded        |-> cost,
     tests_failing       |-> tests]

Config(maxIter, auto, rules) ==
    [maxIterations          |-> maxIter,
     qualityThreshold       |-> QualityThreshold,
     autoMergeThreshold     |-> AutoMergeThreshold,
     autoMergeEnabled       |-> auto,
     maxCostPerPR           |-> MaxCostPerPR,
     requireHumanApprovalIf |-> rules]

\* getDefaultConfig
DefaultConfig == Config(MaxIter, FALSE, Rules(85, TRUE, TRUE, TRUE, TRUE))

\* the configurations the orchestrator is run with
OrchRules ==
    {Rules(85, TRUE, TRUE, TRUE, TRUE),
     Rules(97, TRUE, TRUE, TRUE, TRUE),
     Rules(0, FALSE, FALSE, FALSE, FALSE)}

OrchConfigs ==
    {Config(m, a, r) : m \in 1..MaxIter, a \in BOOLEAN, r \in OrchRules}

Issue(t, s) == [type |-> t, severity |-> s]

ReviewIssues ==
    {Issue("security", "error"), Issue("code_quality", "error"),
     Issue("code_quality", "warning")}

Review(status, q, issues, sec, perf, cost) ==
    [status            |-> status,
     overallQuality    |-> q,
     issuesFound       |-> issues,
     securityIssues    |-> sec,
     performanceIssues |-> perf,
     cost              |-> cost]

\* CodexClient.reviewCode, catch branch
ErrorReview == Review("error", 0, <<>>, <<>>, <<>>, 0)

\* the Checker results of the orchestrator runs
OrchReviews ==
    {ErrorReview} \cup
    {Review("success", q, issues, sec, <<>>, 1) :
        q \in {70, 80, 100},
        issues \in {<<>>} \cup {<<i>> : i \in ReviewIssues},
        sec \in {<<>>, <<[severity |-> "critical"]>>, <<[severity |-> "low"]>>}}

\* the Maker results of the orchestrator runs (ClaudeClient.respondToFeedback)
ClaudeResponses ==
    {[status |-> "error", issuesAddressed |-> 0, cost |-> 0]} \cup
    {[status |-> "success", issuesAddressed |-> 1, cost |-> c] : c \in {0, 2}}

-----------------------------------------------------------------------------
(* MakerCheckerOrchestrator (index.ts) *)

\* no collaborator call has been made
NoCalls ==
    [startIteration |-> 0, startCost |-> 0, checkerCalls |-> 0, makerCalls |-> 0,
     spent |-> 0]

Init ==
    /\ config \in OrchConfigs
    /\ persisted = Absent
    /\ state = Absent
    /\ pc = "idle"
    /\ review = Absent
    /\ ciStatus = None
    /\ decision = Absent
    /\ stopReason = None
    /\ merged = FALSE
    /\ claudeResponse = Absent
    /\ runLog = NoCalls
    /\ NoCostRecorded
    /\ NoScalabilityUse
    /\ args = Absent
    /\ result = Absent

\* the mutant: the state of the change is initialized whatever the file holds
StartRun_AlwaysFresh ==
    /\ pc = "idle"
    /\ IF TRUE
       THEN /\ state' = initializeState(config)
            /\ persisted' = initializeState(config)
       ELSE /\ state' = getState(persisted)
            /\ UNCHANGED persisted
    /\ pc' = "loop"
    /\ review' = Absent
    /\ ciStatus' = None
    /\ decision' = Absent
    /\ stopReason' = None
    /\ claudeResponse' = Absent
    /\ runLog' = [NoCalls EXCEPT !.startIteration = state'.currentIteration,
                                 !.startCost = state'.totalCost]
    /\ UNCHANGED <<config, merged, args, result, costVars, scalabilityVars>>

\* run(): load the state of the change or initialize it, then runIterations
StartRun ==
    /\ pc = "idle"
    /\ IF getState(persisted) = Absent
       THEN /\ state' = initializeState(config)
            /\ persisted' = initializeState(config)
       ELSE /\ state' = getState(persisted)
            /\ UNCHANGED persisted
    /\ pc' = "loop"
    /\ review' = Absent
    /\ ciStatus' = None
    /\ decision' = Absent
    /\ stopReason' = None
    /\ claudeResponse' = Absent
    /\ runLog' = [NoCalls EXCEPT !.startIteration = state'.currentIteration,
                                 !.startCost = state'.totalCost]
    /\ UNCHANGED <<config, merged, args, result, costVars, scalabilityVars>>

\* the mutant: an iteration is started whatever the iteration count is
LoopStart_NoGuard ==
    /\ pc = "loop"
    /\ state.currentIteration <= state.maxIterations
    /\ state' = startIteration(state)
    /\ persisted' = state'
    /\ pc' = "codex"
    /\ runLog' = [runLog EXCEPT !.checkerCalls = @ + 1]
    /\ UNCHANGED <<config, review, ciStatus, decision, stopReason, merged,
                   claudeResponse, args, result, costVars, scalabilityVars>>

\* while (state.currentIteration < state.maxIterations): startIteration
LoopStart ==
    /\ pc = "loop"
    /\ state.currentIteration < state.maxIterations
    /\ state' = startIteration(state)
    /\ persisted' = state'
    /\ pc' = "codex"
    /\ runLog' = [runLog EXCEPT !.checkerCalls = @ + 1]
    /\ UNCHANGED <<config, review, ciStatus, decision, stopReason, merged,
                   claudeResponse, args, result, costVars, scalabilityVars>>

\* the while condition is false
LoopExit ==
    /\ pc = "loop"
    /\ ~(state.currentIteration < state.maxIterations)
    /\ stopReason' = "max_iterations"
    /\ pc' = "final"
    /\ UNCHANGED <<config, persisted, state, review, ciStatus, decision, merged,
                   claudeResponse, args, result, costVars, scalabilityVars, runLog>>

\* the mutant: a Checker error does not stop the iteration, the Maker is called
CodexReview_ErrorContinues ==
    /\ pc = "codex"
    /\ \E rv \in OrchReviews :
        /\ review' = rv
        /\ IF rv.status = "error"
           THEN /\ state' = updatePhase(state, "claude_response")
                /\ persisted' = state'
                /\ UNCHANGED stopReason
                /\ pc' = "claude"
           ELSE LET qualityScore == calculateQualityScore(rv)
                    scored == [state EXCEPT !.qualityScore = qualityScore]
                IN  IF meetsThreshold(qualityScore, config.qualityThreshold)
                    THEN /\ state' = scored
                         /\ UNCHANGED <<persisted, stopReason>>
                         /\ pc' = "ci"
                    ELSE IF Len(rv.issuesFound) = 0
                    THEN /\ state' = complete(scored, TRUE)
                         /\ persisted' = state'
                         /\ stopReason' = "no_issues"
                         /\ pc' = "final"
                    ELSE /\ state' = updatePhase(scored, "claude_response")
                         /\ persisted' = state'
                         /\ UNCHANGED stopReason
                         /\ pc' = "claude"
        /\ runLog' = [runLog EXCEPT
               !.spent = @ + (IF rv.status = "success" THEN rv.cost ELSE 0),
               !.makerCalls = @ + (IF pc' = "claude" THEN 1 ELSE 0)]
    /\ UNCHANGED <<config, ciStatus, decision, merged, claudeResponse, args, result, costVars, scalabilityVars>>

\* the mutant: the Maker is called although the Checker reported no issue
CodexReview_NoIssueCheck ==
    /\ pc = "codex"
    /\ \E rv \in OrchReviews :
        /\ review' = rv
        /\ IF rv.status = "error"
           THEN /\ state' = [state EXCEPT !.currentPhase = "failed"]
                /\ persisted' = state'
                /\ stopReason' = "checker_error"
                /\ pc' = "final"
           ELSE LET qualityScore == calculateQualityScore(rv)
                    scored == [state EXCEPT !.qualityScore = qualityScore]
                IN  IF meetsThreshold(qualityScore, config.qualityThreshold)
                    THEN /\ state' = scored
                         /\ UNCHANGED <<persisted, stopReason>>
                         /\ pc' = "ci"
                    ELSE /\ state' = updatePhase(scored, "claude_response")
                         /\ persisted' = state'
                         /\ UNCHANGED stopReason
                         /\ pc' = "claude"
        /\ runLog' = [runLog EXCEPT
               !.spent = @ + (IF rv.status = "success" THEN rv.cost ELSE 0),
               !.makerCalls = @ + (IF pc' = "claude" THEN 1 ELSE 0)]
    /\ UNCHANGED <<config, ciStatus, decision, merged, claudeResponse, args, result, costVars, scalabilityVars>>

\* codex.reviewCode returns; up to the next collaborator call
CodexReview ==
    /\ pc = "codex"
    /\ \E rv \in OrchReviews :
        /\ review' = rv
        /\ IF rv.status = "error"
           THEN /\ state' = [state EXCEPT !.currentPhase = "failed"]
                /\ persisted' = state'
                /\ stopReason' = "checker_error"
                /\ pc' = "final"
           ELSE LET qualityScore == calculateQualityScore(rv)
                    scored == [state EXCEPT !.qualityScore = qualityScore]
                IN  IF meetsThreshold(qualityScore, config.qualityThreshold)
                    THEN /\ state' = scored
                         /\ UNCHANGED <<persisted, stopReason>>
                         /\ pc' = "ci"
                    ELSE IF Len(rv.issuesFound) = 0
                    THEN /\ state' = complete(scored, TRUE)
                         /\ persisted' = state'
                         /\ stopReason' = "no_issues"
                         /\ pc' = "final"
                    ELSE /\ state' = updatePhase(scored, "claude_response")
                         /\ persisted' = state'
                         /\ UNCHANGED stopReason
                         /\ pc' = "claude"
        /\ runLog' = [runLog EXCEPT
               !.spent = @ + (IF rv.status = "success" THEN rv.cost ELSE 0),
               !.makerCalls = @ + (IF pc' = "claude" THEN 1 ELSE 0)]
    /\ UNCHANGED <<config, ciStatus, decision, merged, claudeResponse, args, result, costVars, scalabilityVars>>

\* github.getCIStatus returns: merge decision, record, merge, complete
MergeDecision ==
    /\ pc = "ci"
    /\ \E ci \in CIStatuses :
        LET d == shouldMerge(state, review, ci, config)
            recorded == recordIteration(state,
                            IterationRecord(state, review, 0, review.cost))
        IN  /\ ciStatus' = ci
            /\ decision' = d
            /\ merged' = (merged \/ (d.shouldMerge /\ ~d.requiresHumanApproval
                                       /\ config.autoMergeEnabled))
            /\ state' = complete(recorded, TRUE)
            /\ persisted' = state'
    /\ stopReason' = "threshold_met"
    /\ pc' = "final"
    /\ UNCHANGED <<config, review, claudeResponse, args, result, costVars, scalabilityVars, runLog>>

\* the mutant: the record of the iteration is kept in memory and not saved
ClaudeRespond_RecordNotSaved ==
    /\ pc = "claude"
    /\ \E resp \in ClaudeResponses :
        /\ IF resp.status = "error"
           THEN /\ state' = [state EXCEPT !.currentPhase = "failed"]
                /\ persisted' = state'
                /\ stopReason' = "maker_error"
                /\ pc' = "final"
                /\ UNCHANGED review
                /\ claudeResponse' = resp
           ELSE LET recorded == recordIteration(state,
                                    IterationRecord(state, review, resp.issuesAddressed,
                                                    review.cost + resp.cost))
                    improving == isImproving(recorded.history)
                    next == updateConvergence(recorded,
                                IF improving THEN "improving" ELSE "stagnant")
                IN  /\ state' = next
                    /\ UNCHANGED persisted
                    /\ IF ~improving /\ next.currentIteration >= 3
                       THEN /\ stopReason' = "stagnation" /\ pc' = "final"
                            /\ UNCHANGED review /\ claudeResponse' = resp
                       ELSE IF next.totalCost >= config.maxCostPerPR
                       THEN /\ stopReason' = "cost_limit" /\ pc' = "final"
                            /\ UNCHANGED review /\ claudeResponse' = resp
                       \* the loop body ends: its locals go out of scope
                       ELSE /\ UNCHANGED stopReason /\ pc' = "loop"
                            /\ review' = Absent /\ claudeResponse' = Absent
        /\ runLog' = [runLog EXCEPT
               !.spent = @ + (IF resp.status = "success" THEN resp.cost ELSE 0)]
    /\ UNCHANGED <<config, ciStatus, decision, merged, args, result, costVars, scalabilityVars>>

\* the mutant: a failed Maker call is made again
ClaudeRespond_ErrorRetried ==
    /\ pc = "claude"
    /\ \E resp \in ClaudeResponses :
        /\ IF resp.status = "error"
           THEN /\ UNCHANGED <<state, persisted, stopReason>>
                /\ pc' = "claude"
                /\ UNCHANGED review
                /\ claudeResponse' = resp
           ELSE LET recorded == recordIteration(state,
                                    IterationRecord(state, review, resp.issuesAddressed,
                                                    review.cost + resp.cost))
                    improving == isImproving(recorded.history)
                    next == updateConvergence(recorded,
                                IF improving THEN "improving" ELSE "stagnant")
                IN  /\ state' = next
                    /\ persisted' = next
                    /\ IF ~improving /\ next.currentIteration >= 3
                       THEN /\ stopReason' = "stagnation" /\ pc' = "final"
                            /\ UNCHANGED review /\ claudeResponse' = resp
                       ELSE IF next.totalCost >= config.maxCostPerPR
                       THEN /\ stopReason' = "cost_limit" /\ pc' = "final"
                            /\ UNCHANGED review /\ claudeResponse' = resp
                       \* the loop body ends: its locals go out of scope
                       ELSE /\ UNCHANGED stopReason /\ pc' = "loop"
                            /\ review' = Absent /\ claudeResponse' = Absent
        /\ runLog' = [runLog EXCEPT
               !.spent = @ + (IF resp.status = "success" THEN resp.cost ELSE 0)]
    /\ UNCHANGED <<config, ciStatus, decision, merged, args, result, costVars, scalabilityVars>>

\* claude.respondToFeedback returns; up to the next iteration
ClaudeRespond ==
    /\ pc = "claude"
    /\ \E resp \in ClaudeResponses :
        /\ IF resp.status = "error"
           THEN /\ state' = [state EXCEPT !.currentPhase = "failed"]
                /\ persisted' = state'
                /\ stopReason' = "maker_error"
                /\ pc' = "final"
                /\ UNCHANGED review
                /\ claudeResponse' = resp
           ELSE LET recorded == recordIteration(state,
                                    IterationRecord(state, review, resp.issuesAddressed,
                                                    review.cost + resp.cost))
                    improving == isImproving(recorded.history)
                    next == updateConvergence(recorded,
                                IF improving THEN "improving" ELSE "stagnant")
                IN  /\ state' = next
                    /\ persisted' = next
                    /\ IF ~improving /\ next.currentIteration >= 3
                       THEN /\ stopReason' = "stagnation" /\ pc' = "final"
                            /\ UNCHANGED review /\ claudeResponse' = resp
                       ELSE IF next.totalCost >= config.maxCostPerPR
                       THEN /\ stopReason' = "cost_limit" /\ pc' = "final"
                            /\ UNCHANGED review /\ claudeResponse' = resp
                       \* the loop body ends: its locals go out of scope
                       ELSE /\ UNCHANGED stopReason /\ pc' = "loop"
                            /\ review' = Absent /\ claudeResponse' = Absent
        /\ runLog' = [runLog EXCEPT
               !.spent = @ + (IF resp.status = "success" THEN resp.cost ELSE 0)]
    /\ UNCHANGED <<config, ciStatus, decision, merged, args, result, costVars, scalabilityVars>>

\* after the loop: the max-iterations notice; run() returns and its locals
\* go out of scope
Finish ==
    /\ pc = "final"
    /\ pc' = "idle"
    /\ state' = Absent
    /\ review' = Absent
    /\ ciStatus' = None
    /\ decision' = Absent
    /\ claudeResponse' = Absent
    /\ runLog' = NoCalls
    /\ UNCHANGED <<config, persisted, stopReason, merged, args, result, costVars, scalabilityVars>>

Next ==
    \/ StartRun
    \/ LoopStart
    \/ LoopExit
    \/ CodexReview
    \/ MergeDecision
    \/ ClaudeRespond
    \/ Finish

Spec == Init /\ [][Next]_vars

\* every collaborator call returns (codex.reviewCode, github.getCIStatus,
\* claude.respondToFeedback), and the run itself keeps executing
\* the state file of the change is damaged between two runs
StateFileCorrupted ==
    /\ pc = "idle"
    /\ getState(persisted) # Absent
    /\ persisted' = Unparsable
    /\ UNCHANGED <<config, state, pc, review, ciStatus, decision, stopReason, merged,
                   claudeResponse, runLog, args, result, costVars, scalabilityVars>>

NextResume ==
    \/ Next
    \/ StateFileCorrupted

LiveConfigs == {Config(m, TRUE, Rules(85, TRUE, TRUE, TRUE, TRUE)) : m \in 1..MaxIter}

InitLive ==
    /\ config \in LiveConfigs
    /\ persisted = Absent
    /\ state = Absent
    /\ pc = "idle"
    /\ review = Absent
    /\ ciStatus = None
    /\ decision = Absent
    /\ stopReason = None
    /\ merged = FALSE
    /\ claudeResponse = Absent
    /\ runLog = NoCalls
    /\ NoCostRecorded
    /\ NoScalabilityUse
    /\ args = Absent
    /\ result = Absent

\* runs on a state file that may be missing, damaged or left by an earlier run
SpecResume == InitLive /\ [][NextResume]_vars

SpecLive ==
    /\ InitLive
    /\ [][Next]_vars
    /\ WF_vars(LoopStart)
    /\ WF_vars(LoopExit)
    /\ WF_vars(CodexReview)
    /\ WF_vars(MergeDecision)
    /\ WF_vars(ClaudeRespond)
    /\ WF_vars(Finish)

-----------------------------------------------------------------------------
(* Component specifications: one call of a component on arguments drawn    *)
(* from bounded sets; no orchestrator run is in progress.                  *)

NoRun ==
    /\ config = DefaultConfig
    /\ persisted = Absent
    /\ state = Absent
    /\ pc = "component"
    /\ review = Absent
    /\ ciStatus = None
    /\ decision = Absent
    /\ stopReason = None
    /\ merged = FALSE
    /\ claudeResponse = Absent
    /\ runLog = NoCalls
    /\ NoCostRecorded
    /\ NoScalabilityUse

IterationStateOf(cur, max, phase, score, conv, cost) ==
    [currentIteration  |-> cur,
     maxIterations     |-> max,
     history           |-> <<>>,
     currentPhase      |-> phase,
     qualityScore      |-> score,
     convergenceStatus |-> conv,
     totalCost         |-> cost]

(* IterationLimiter.canStartIteration *)

LimiterStates ==
    {IterationStateOf(cur, max, phase, 0, "improving", cost) :
        cur \in 0..(MaxIter + 1), max \in 0..MaxIter, phase \in Phases,
        cost \in 0..(MaxCostPerPR + 1)}

InitLimiter ==
    /\ NoRun
    /\ args \in {[fn |-> "canStartIteration", state |-> st, config |-> DefaultConfig] :
                    st \in LimiterStates}
    /\ result = Absent

CallCanStartIteration ==
    /\ args.fn = "canStartIteration"
    /\ result = Absent
    /\ result' = canStartIteration(args.state, args.config)
    /\ UNCHANGED <<orchVars, scalabilityVars, costVars, args>>

SpecLimiter == InitLimiter /\ [][CallCanStartIteration]_vars

(* QualityAnalyzer.calculateQualityScore *)

ScoreReviews ==
    {Review(status, q, issues, sec, perf, 0) :
        status \in {"success", "error"},
        q \in {0, 50, 100, 150},
        issues \in SeqsUpTo(ReviewIssues \cup {Issue("performance", "info")}, MaxIssues),
        sec \in SeqsUpTo([severity : SecSeverities], MaxSecIssues),
        perf \in SeqsUpTo([impact : {"high", "low"}], 1)}

InitScore ==
    /\ NoRun
    /\ args \in {[fn |-> "calculateQualityScore", review |-> rv] : rv \in ScoreReviews}
    /\ result = Absent

CallCalculateQualityScore ==
    /\ args.fn = "calculateQualityScore"
    /\ result = Absent
    /\ result' = [value |-> calculateQualityScore(args.review)]
    /\ UNCHANGED <<orchVars, scalabilityVars, costVars, args>>

SpecScore == InitScore /\ [][CallCalculateQualityScore]_vars

(* MergeDecider.shouldMerge *)

MergeStates ==
    {IterationStateOf(cur, MaxIter, "codex_review", score, conv, cost) :
        cur \in {1, MaxIter}, score \in {80, 90, 95},
        conv \in {"improving", "stagnant"}, cost \in {0, MaxCostPerPR}}

MergeReviews ==
    {Review("success", 100, issues, sec, <<>>, 1) :
        issues \in SeqsUpTo(ReviewIssues, MaxIssues),
        sec \in SeqsUpTo([severity : {"critical", "high", "low"}], MaxSecIssues)}

MergeConfigs ==
    {Config(MaxIter, auto, Rules(floor, sec, iter, cost, tests)) :
        auto \in BOOLEAN, floor \in {0, 85, 95}, sec \in BOOLEAN,
        iter \in BOOLEAN, cost \in BOOLEAN, tests \in BOOLEAN}

InitMerge ==
    /\ NoRun
    /\ \E st \in MergeStates, rv \in MergeReviews, ci \in CIStatuses,
          cfg \in MergeConfigs :
            args = [fn |-> "shouldMerge", state |-> st, review |-> rv, ci |-> ci,
                    config |-> cfg]
    /\ result = Absent

CallShouldMerge ==
    /\ args.fn = "shouldMerge"
    /\ result = Absent
    /\ result' = shouldMerge(args.state, args.review, args.ci, args.config)
    /\ UNCHANGED <<orchVars, scalabilityVars, costVars, args>>

SpecMerge == InitMerge /\ [][CallShouldMerge]_vars

(* IterationLimiter.detectSuspiciousPatterns *)

\* what an iteration contributes: issue count and reported quality
PatternSteps == [issuesFound : {0, 8, 9}, overallQuality : {60, 70}]

\* the seconds from one record to the next
PatternGaps == {10, 60}

PatternHistory(steps, gap) ==
    [i \in 1..Len(steps) |->
        [issuesFound    |-> steps[i].issuesFound,
         overallQuality |-> steps[i].overallQuality,
         timestamp      |-> i * gap]]

InitPatterns ==
    /\ NoRun
    /\ \E k \in 0..MaxPatternHist :
        \E steps \in [1..k -> PatternSteps], gap \in PatternGaps :
            args = [fn |-> "detectSuspiciousPatterns",
                    state |-> [history |-> PatternHistory(steps, gap)]]
    /\ result = Absent

CallDetectSuspiciousPatterns ==
    /\ args.fn = "detectSuspiciousPatterns"
    /\ result = Absent
    /\ result' = detectSuspiciousPatterns(args.state)
    /\ UNCHANGED <<orchVars, scalabilityVars, costVars, args>>

SpecPatterns == InitPatterns /\ [][CallDetectSuspiciousPatterns]_vars


(* CostTracker: processes that record costs, and one query of the limits *)

CostConfig(cap) == [maxCostPerPR |-> MaxCostPerPR, monthlyCostCap |-> cap]

\* the monthly caps the tracker is configured with
MonthlyCaps == {4, 8}

InitCost ==
    /\ config \in {CostConfig(cap) : cap \in MonthlyCaps}
    /\ persisted = Absent
    /\ state = Absent
    /\ pc = "component"
    /\ review = Absent
    /\ ciStatus = None
    /\ decision = Absent
    /\ stopReason = None
    /\ merged = FALSE
    /\ claudeResponse = Absent
    /\ runLog = NoCalls
    /\ NoCostRecorded
    /\ NoScalabilityUse
    /\ args = Absent
    /\ result = Absent

\* recordCost is called: the tracking record is built
RecordCost(w) ==
    /\ writers[w].pc = "idle"
    /\ Len(costLog) + Cardinality({v \in Writers : writers[v].pc = "append"}) < MaxCalls
    /\ \E pr \in PRs, claudeCost \in {0, 2}, codexCost \in {1} :
        writers' = [writers EXCEPT ![w].pc = "append",
                                   ![w].tracking = CostTracking(pr, claudeCost, codexCost)]
    /\ UNCHANGED <<orchVars, scalabilityVars, costLog, prTracking, issued, args, result>>

\* appendToDailyLog: fs.appendFileSync
AppendToDailyLog(w) ==
    /\ writers[w].pc = "append"
    /\ costLog' = appendToDailyLog(costLog, writers[w].tracking)
    /\ writers' = [writers EXCEPT ![w].pc = "read"]
    /\ UNCHANGED <<orchVars, scalabilityVars, prTracking, issued, args, result>>

\* updatePRTracking: fs.existsSync and fs.readFileSync
ReadPRTracking(w) ==
    /\ writers[w].pc = "read"
    /\ writers' = [writers EXCEPT
                      ![w].existing = getPRTracking(prTracking, writers[w].tracking.prNumber),
                      ![w].pc = "write"]
    /\ UNCHANGED <<orchVars, scalabilityVars, costLog, prTracking, issued, args, result>>

\* updatePRTracking: fs.writeFileSync; recordCost returns
WritePRTracking(w) ==
    /\ writers[w].pc = "write"
    /\ LET tracking == writers[w].tracking
       IN  /\ prTracking' = [prTracking EXCEPT ![tracking.prNumber] =
                                mergePRTracking(writers[w].existing, tracking)]
           /\ issued' = [issued EXCEPT ![tracking.prNumber] = @ + tracking.totalCost]
    /\ writers' = [writers EXCEPT ![w] = IdleWriter]
    /\ UNCHANGED <<orchVars, scalabilityVars, costLog, args, result>>

\* one call of hasExceededPRLimit and of checkMonthlyLimit, on the files as they are
CheckLimits ==
    /\ result = Absent
    /\ \E pr \in PRs :
        result' = [prNumber     |-> pr,
                   tracked      |-> getPRTracking(prTracking, pr) # Absent,
                   prCost       |-> getPRCost(prTracking, pr),
                   exceededPR   |-> hasExceededPRLimit(prTracking, pr, config),
                   monthlyCost  |-> getMonthlyCost(costLog),
                   monthlyLimit |-> checkMonthlyLimit(costLog, config)]
    /\ UNCHANGED <<orchVars, scalabilityVars, costVars, args>>

NextCost ==
    \/ \E w \in Writers : RecordCost(w)
    \/ \E w \in Writers : AppendToDailyLog(w)
    \/ \E w \in Writers : ReadPRTracking(w)
    \/ \E w \in Writers : WritePRTracking(w)
    \/ CheckLimits

SpecCost == InitCost /\ [][NextCost]_vars


(* ConvergenceDetector.detectConvergence *)

ConvRecords ==
    {[overallQuality |-> q, issuesFound |-> n] :
        q \in {10, 12, 60, 61, 62, 70}, n \in {7, 8, 9}}

InitConv ==
    /\ NoRun
    /\ args \in {[fn |-> "detectConvergence", history |-> h] :
                    h \in SeqsUpTo(ConvRecords, MaxHist)}
    /\ result = Absent

CallDetectConvergence ==
    /\ args.fn = "detectConvergence"
    /\ result = Absent
    /\ result' = detectConvergence(args.history)
    /\ UNCHANGED <<orchVars, scalabilityVars, costVars, args>>

SpecConv == InitConv /\ [][CallDetectConvergence]_vars

(* ConvergenceDetector.predictConvergence *)

\* Qualities and scores are multiples of 0.25 below a target of 0.85: on these
\* the differences and their sums are exact in double arithmetic and no
\* quotient neededImprovement / avgImprovement is a whole number, so Math.ceil
\* of the double quotient is the ceiling of the exact one.
PredictQualities == {25, 50, 75, 100}
PredictRecords == {[overallQuality |-> q, issuesFound |-> 1] : q \in PredictQualities}

InitPredict ==
    /\ NoRun
    /\ \E h \in SeqsUpTo(PredictRecords, MaxHist), score \in PredictQualities,
          cur \in 0..MaxIter :
        args = [fn |-> "predictConvergence",
                state |-> [IterationStateOf(cur, MaxIter, "claude_response", score,
                                            "improving", 0)
                              EXCEPT !.history = h],
                targetQuality |-> QualityThreshold]
    /\ result = Absent

CallPredictConvergence ==
    /\ args.fn = "predictConvergence"
    /\ result = Absent
    /\ result' = predictConvergence(args.state, args.targetQuality)
    /\ UNCHANGED <<orchVars, scalabilityVars, costVars, args>>

SpecPredict == InitPredict /\ [][CallPredictConvergence]_vars

(* QualityGates.checkGates *)

\* issuesFound with nErr error issues followed by nWarn warning issues
GateIssues(nErr, nWarn) ==
    [i \in 1..(nErr + nWarn) |->
        IF i <= nErr THEN Issue("code_quality", "error")
        ELSE Issue("code_quality", "warning")]

GateSecurityLists ==
    {<<>>, <<[severity |-> "critical"]>>, <<[severity |-> "high"]>>,
     <<[severity |-> "medium"]>>}

GateMetrics ==
    [overallScore : {QualityThreshold - 1, QualityThreshold},
     security     : {69, 70},
     performance  : {69, 70},
     typeSafety   : {79, 80},
     codeQuality  : {74, 75}]

InitGates ==
    /\ NoRun
    /\ \E nErr \in {0, 1}, nWarn \in {10, 11}, sec \in GateSecurityLists,
          metrics \in GateMetrics, ci \in CIStatuses :
        args = [fn       |-> "checkGates",
                review   |-> Review("success", metrics.overallScore,
                                    GateIssues(nErr, nWarn), sec, <<>>, 1),
                metrics  |-> metrics,
                ciStatus |-> ci,
                config   |-> DefaultConfig]
    /\ result = Absent

CallCheckGates ==
    /\ args.fn = "checkGates"
    /\ result = Absent
    /\ result' = checkGates(args.review, args.metrics, args.ciStatus, args.config)
    /\ UNCHANGED <<orchVars, scalabilityVars, costVars, args>>

SpecGates == InitGates /\ [][CallCheckGates]_vars

(* QualityGates.isAutoMergeSafe beside checkGates and MergeDecider.shouldMerge *)

\* the configuration as shipped, and one whose autoMergeThreshold is below its
\* qualityThreshold
AutoMergeConfigs ==
    {Config(MaxIter, TRUE, Rules(85, TRUE, TRUE, TRUE, TRUE)),
     [Config(MaxIter, TRUE, Rules(0, FALSE, FALSE, FALSE, FALSE))
         EXCEPT !.autoMergeThreshold = QualityThreshold - 5]}

AutoMergeMetrics ==
    [overallScore  : {QualityThreshold - 6, QualityThreshold - 5, QualityThreshold - 1,
                      QualityThreshold, AutoMergeThreshold},
     security      : {70, 89, 90, 100},
     performance   : {100},
     typeSafety    : {100},
     codeQuality   : {85, 100},
     bestPractices : {100}]

InitAutoMerge ==
    /\ NoRun
    /\ \E nErr \in {0, 1}, sec \in {<<>>, <<[severity |-> "low"]>>},
          metrics \in AutoMergeMetrics, ci \in {"success", "failure"},
          score \in {QualityThreshold - 5, QualityThreshold, AutoMergeThreshold},
          cfg \in AutoMergeConfigs :
        args = [fn       |-> "isAutoMergeSafe",
                state    |-> IterationStateOf(1, MaxIter, "codex_review", score,
                                              "improving", 0),
                review   |-> Review("success", 100, GateIssues(nErr, 0), sec, <<>>, 1),
                metrics  |-> metrics,
                ciStatus |-> ci,
                config   |-> cfg]
    /\ result = Absent

\* the three merge-readiness answers on the same arguments
CallIsAutoMergeSafe ==
    /\ args.fn = "isAutoMergeSafe"
    /\ result = Absent
    /\ result' = [safe     |-> isAutoMergeSafe(args.review, args.metrics, args.ciStatus,
                                               args.config),
                  gates    |-> checkGates(args.review, args.metrics, args.ciStatus,
                                          args.config),
                  decision |-> shouldMerge(args.state, args.review, args.ciStatus,
                                           args.config)]
    /\ UNCHANGED <<orchVars, scalabilityVars, costVars, args>>

SpecAutoMerge == InitAutoMerge /\ [][CallIsAutoMergeSafe]_vars

(* predictConvergence beside IterationLimiter.willLikelyExceedLimit *)

InitProjection ==
    /\ NoRun
    /\ \E h \in SeqsUpTo(PredictRecords, MaxHist), score \in PredictQualities,
          cur \in 0..MaxIter :
        args = [fn |-> "willLikelyExceedLimit",
                state |-> [IterationStateOf(cur, MaxIter, "claude_response", score,
                                            "improving", 0)
                              EXCEPT !.history = h],
                targetQuality |-> QualityThreshold]
    /\ result = Absent

\* both projections on the same state, with state.qualityScore as currentQuality
CallProjections ==
    /\ args.fn = "willLikelyExceedLimit"
    /\ result = Absent
    /\ result' = [prediction |-> predictConvergence(args.state, args.targetQuality),
                  exceed     |-> willLikelyExceedLimit(args.state, args.state.qualityScore,
                                                       args.targetQuality)]
    /\ UNCHANGED <<orchVars, scalabilityVars, costVars, args>>

SpecProjection == InitProjection /\ [][CallProjections]_vars

(* RateLimiter: concurrent execute calls on one limiter *)

InitScalability ==
    /\ config = DefaultConfig
    /\ persisted = Absent
    /\ state = Absent
    /\ pc = "component"
    /\ review = Absent
    /\ ciStatus = None
    /\ decision = Absent
    /\ stopReason = None
    /\ merged = FALSE
    /\ claudeResponse = Absent
    /\ runLog = NoCalls
    /\ NoCostRecorded
    /\ NoScalabilityUse
    /\ args = Absent
    /\ result = Absent

\* time passes
Tick ==
    /\ clock < MaxClock
    /\ clock' = clock + 1
    /\ UNCHANGED <<orchVars, costVars, requests, callers, cache, cacheFile, setters,
                   args, result>>

\* execute is called: waitForSlot takes startTime
Execute(c) ==
    /\ callers[c].pc = "idle"
    /\ callers' = [callers EXCEPT ![c] = [pc |-> "check", startTime |-> clock,
                                          allowed |-> FALSE]]
    /\ UNCHANGED <<orchVars, costVars, clock, requests, cache, cacheFile, setters,
                   args, result>>

\* waitForSlot: the while condition and, inside the loop, the body of check();
\* when the time is up waitForSlot returns false and execute throws
Check(c) ==
    /\ callers[c].pc = "check"
    /\ IF clock - callers[c].startTime < TimeoutTicks
       THEN LET cleaned == cleanOldRequests(requests, clock)
            IN  /\ requests' = cleaned
                /\ callers' = [callers EXCEPT
                       ![c] = [@ EXCEPT !.pc = "checked",
                                        !.allowed = RateLimitStatus(cleaned).allowed]]
       ELSE /\ callers' = [callers EXCEPT ![c] = IdleCaller]
            /\ UNCHANGED requests
    /\ UNCHANGED <<orchVars, costVars, clock, cache, cacheFile, setters, args, result>>

\* await this.check() resumes: return true, or sleep and check again
AfterCheck(c) ==
    /\ callers[c].pc = "checked"
    /\ callers' = [callers EXCEPT
           ![c] = [@ EXCEPT !.pc = IF callers[c].allowed THEN "slot" ELSE "check"]]
    /\ UNCHANGED <<orchVars, costVars, clock, requests, cache, cacheFile, setters,
                   args, result>>

\* await this.waitForSlot() resumes in execute: record() pushes the timestamps
Record(c) ==
    /\ callers[c].pc = "slot"
    /\ requests' = record(requests, clock)
    /\ callers' = [callers EXCEPT ![c] = [@ EXCEPT !.pc = "fn"]]
    /\ UNCHANGED <<orchVars, costVars, clock, cache, cacheFile, setters, args, result>>

\* fn() returns or throws: execute ends
FnReturns(c) ==
    /\ callers[c].pc = "fn"
    /\ callers' = [callers EXCEPT ![c] = IdleCaller]
    /\ UNCHANGED <<orchVars, costVars, clock, requests, cache, cacheFile, setters,
                   args, result>>

NextRate ==
    \/ Tick
    \/ \E c \in Callers : Execute(c)
    \/ \E c \in Callers : Check(c)
    \/ \E c \in Callers : AfterCheck(c)
    \/ \E c \in Callers : Record(c)
    \/ \E c \in Callers : FnReturns(c)

SpecRate == InitScalability /\ [][NextRate]_vars

(* SemanticCache: concurrent set calls on one cache *)

\* set(key, value) up to its first await: with the Map full, evictLRU deletes
\* the entry and save() takes the entries to write; otherwise the entry is set
\* and save() takes the entries to write
SetBegin(s, key) ==
    /\ setters[s].pc = "idle"
    /\ IF Len(cache) >= MaxEntries
       THEN LET n == lruIndex(cache)
            IN  IF n # 0
                THEN /\ cache' = deleteAt(cache, n)
                     /\ setters' = [setters EXCEPT ![s] =
                            [pc |-> "evict_save", key |-> key, snapshot |-> cache']]
                ELSE /\ UNCHANGED cache
                     /\ setters' = [setters EXCEPT ![s] =
                            [pc |-> "evicted", key |-> key, snapshot |-> <<>>]]
       ELSE /\ cache' = cacheSet(cache, CacheEntry(key, clock))
            /\ setters' = [setters EXCEPT ![s] =
                   [pc |-> "save", key |-> key, snapshot |-> cache']]
    /\ UNCHANGED <<orchVars, costVars, clock, requests, callers, cacheFile, args, result>>

\* the writeFile of evictLRU's save() completes
EvictSaveDone(s) ==
    /\ setters[s].pc = "evict_save"
    /\ cacheFile' = setters[s].snapshot
    /\ setters' = [setters EXCEPT ![s] = [@ EXCEPT !.pc = "evicted"]]
    /\ UNCHANGED <<orchVars, costVars, clock, requests, callers, cache, args, result>>

\* await this.evictLRU() resumes in set: the entry is set and save() takes the
\* entries to write
SetResume(s) ==
    /\ setters[s].pc = "evicted"
    /\ cache' = cacheSet(cache, CacheEntry(setters[s].key, clock))
    /\ setters' = [setters EXCEPT ![s] = [@ EXCEPT !.pc = "save", !.snapshot = cache']]
    /\ UNCHANGED <<orchVars, costVars, clock, requests, callers, cacheFile, args, result>>

\* the writeFile of set's save() completes: set returns
SaveDone(s) ==
    /\ setters[s].pc = "save"
    /\ cacheFile' = setters[s].snapshot
    /\ setters' = [setters EXCEPT ![s] = IdleSetter]
    /\ UNCHANGED <<orchVars, costVars, clock, requests, callers, cache, args, result>>

NextCache ==
    \/ Tick
    \/ \E s \in Setters, key \in Keys : SetBegin(s, key)
    \/ \E s \in Setters : EvictSaveDone(s)
    \/ \E s \in Setters : SetResume(s)
    \/ \E s \in Setters : SaveDone(s)

SpecCache == InitScalability /\ [][NextCache]_vars

-----------------------------------------------------------------------------
(* Properties *)

Range(s) == {s[i] : i \in 1..Len(s)}

IsTerminal(st) == st.currentPhase \in TerminalPhases

\* the blocking issues of a Checker result: every error-severity issue and
\* every critical or high security issue
ErrorIssues(rv) == {i \in Range(rv.issuesFound) : i.severity = "error"}
SevereSecurityIssues(rv) ==
    {i \in Range(rv.securityIssues) : i.severity \in {"critical", "high"}}
HasBlockingIssue(rv) == ErrorIssues(rv) # {} \/ SevereSecurityIssues(rv) # {}

Called == result # Absent

\* C1: shouldMerge never returns shouldMerge = true while the latest Checker
\* result holds an error-severity issue of any type or a critical or high
\* security issue.
C1_NoMergeWithBlockingIssue ==
    Called => ~(result.shouldMerge /\ HasBlockingIssue(args.review))

\* C2: canStartIteration returns allowed = false if and only if
\* currentIteration >= maxIterations, or the phase is terminal, or
\* totalCost >= the per-change cost cap.
C2_CanStartIterationIff ==
    Called =>
        (~result.allowed <=>
            \/ args.state.currentIteration >= args.state.maxIterations
            \/ IsTerminal(args.state)
            \/ args.state.totalCost >= args.config.maxCostPerPR)

\* a call refused for the cost cap alone
C2_Witness ==
    /\ Called
    /\ ~result.allowed
    /\ args.state.currentIteration < args.state.maxIterations
    /\ ~IsTerminal(args.state)
    /\ args.state.totalCost >= args.config.maxCostPerPR

IterationInRange(st) ==
    st # Absent => (0 <= st.currentIteration /\ st.currentIteration <= st.maxIterations)

\* C3: in every state reached through any sequence of orchestrator runs,
\* resumed runs included, 0 <= currentIteration <= maxIterations, for the
\* state a run works on and for the persisted state.
C3_IterationInRange == IterationInRange(state) /\ IterationInRange(persisted)

\* a run resumed from a persisted state that had reached the iteration cap
C3_Witness ==
    /\ pc = "loop"
    /\ state.currentPhase = "complete"
    /\ state.currentIteration = state.maxIterations
    /\ state.maxIterations = MaxIter

HistoryCost(st) == SumSeq([i \in 1..Len(st.history) |-> st.history[i].cost])

CostIsSum(st) == st # Absent => st.totalCost = HistoryCost(st)

CostMonotone(st, next) ==
    (st # Absent /\ next # Absent) => next.totalCost >= st.totalCost

\* C4: in every reachable state totalCost equals the sum of the costs of the
\* recorded iterations, and totalCost never decreases from a state to the next.
C4_TotalCostIsSumAndMonotone ==
    /\ [](CostIsSum(state) /\ CostIsSum(persisted))
    /\ [][CostMonotone(state, state') /\ CostMonotone(persisted, persisted')]_vars

\* two recorded iterations with a positive cost
C4_Witness ==
    /\ persisted # Absent
    /\ Len(persisted.history) >= 2
    /\ persisted.history[1].cost > 0
    /\ persisted.history[2].cost > 0
    /\ persisted.totalCost >= MaxCostPerPR

\* C5: once the phase of the persisted state is terminal, no later operation
\* changes that state.
C5_TerminalStateFrozen ==
    [][(persisted # Absent /\ IsTerminal(persisted)) => persisted' = persisted]_vars

\* C6: calculateQualityScore returns a value in [0,1], and exactly 0 when the
\* status of the result is error.
C6_ScoreInUnitInterval ==
    Called =>
        /\ 0 <= result.value /\ result.value <= 100
        /\ (args.review.status = "error" => result.value = 0)

\* an error result that reports a score above 1 and carries issues
C6_Witness ==
    /\ Called
    /\ args.review.status = "error"
    /\ args.review.overallQuality > 100
    /\ Len(args.review.issuesFound) > 0
    /\ result.value = 0

\* a success result whose penalties exceed the reported score
C6_WitnessClamped ==
    /\ Called
    /\ args.review.status = "success"
    /\ calculatePenalties(args.review) > args.review.overallQuality
    /\ result.value = 0

Quality(h, i) == h[i].overallQuality
Steps(h) == 2..Len(h)

StrictlyIncreasing(h) == \A i \in Steps(h) : Quality(h, i) > Quality(h, i - 1)
StrictlyDecreasing(h) == \A i \in Steps(h) : Quality(h, i) < Quality(h, i - 1)
\* all adjacent deltas within +-0.02 (of the decimal scores)
Flat(h) == \A i \in Steps(h) : Abs(Quality(h, i) - Quality(h, i - 1)) <= 2

\* C7 as stated: a strictly increasing score sequence is classified
\* improving, a flat one stagnant, a strictly decreasing one regressing.
C7_TrendClassification ==
    (Called /\ Len(args.history) >= 2) =>
        /\ (StrictlyIncreasing(args.history) => result.status = "improving")
        /\ (Flat(args.history) => result.status = "stagnant")
        /\ (StrictlyDecreasing(args.history) => result.status = "regressing")

\* the window detectConvergence looks at, and the steps of its issue counts
Window(h) == SliceLast(h, StagnationThreshold)
IssueDecreases(h) == Cardinality({i \in Steps(h) : h[i].issuesFound < h[i - 1].issuesFound})
IssueIncreases(h) == Cardinality({i \in Steps(h) : h[i].issuesFound > h[i - 1].issuesFound})

AllDeltasAbove002(h) ==
    \A i \in Steps(h) : DeltaAbove002(Quality(h, i), Quality(h, i - 1))
AllDeltasBelowMinus002(h) ==
    \A i \in Steps(h) : DeltaBelowMinus002(Quality(h, i), Quality(h, i - 1))
AllDeltasWithin002(h) ==
    \A i \in Steps(h) : /\ ~DeltaAbove002(Quality(h, i), Quality(h, i - 1))
                        /\ ~DeltaBelowMinus002(Quality(h, i), Quality(h, i - 1))

\* C7 amended: over the window of the last 3 records of a history of at least
\* 2, (a) every computed delta above +0.02 and more issue-count decreases than
\* increases give improving; (b) every computed delta within +-0.02 and no
\* more issue-count increases than decreases give stagnant; (c) every computed
\* delta below -0.02 gives regressing.
C7_TrendClassificationAmended ==
    (Called /\ Len(args.history) >= 2) =>
        LET w == Window(args.history)
        IN  /\ (AllDeltasAbove002(w) /\ IssueDecreases(w) > IssueIncreases(w)
                    => result.status = "improving")
            /\ (AllDeltasWithin002(w) /\ IssueIncreases(w) <= IssueDecreases(w)
                    => result.status = "stagnant")
            /\ (AllDeltasBelowMinus002(w) => result.status = "regressing")

\* a full window of rising scores and falling issue counts, classified
\* improving, the step 0.60 -> 0.62 counted as above 0.02
C7_Witness ==
    /\ Called
    /\ Len(args.history) = 3
    /\ AllDeltasAbove002(args.history)
    /\ Quality(args.history, 2) - Quality(args.history, 1) = 2
    /\ IssueDecreases(args.history) > IssueIncreases(args.history)
    /\ result.status = "improving"

PreconditionC8 ==
    /\ decision.qualityScore >= config.qualityThreshold
    /\ decision.qualityScore >= config.autoMergeThreshold
    /\ ~HasBlockingIssue(review)
    /\ Len(review.securityIssues) = 0
    /\ ciStatus = "success"
    /\ config.autoMergeEnabled
    /\ decision.totalCost < config.maxCostPerPR
    /\ decision.iterationsUsed < state.maxIterations

Decided == pc = "final" /\ decision # Absent

\* C8 as stated: score at or above both thresholds, no blocking and no
\* security issue, CI success, auto-merge enabled, cost below the cap and
\* iteration cap not reached give phase Converged, shouldMerge = true and
\* requiresHumanApproval = false.
C8_AutoMergeDecision ==
    (Decided /\ PreconditionC8) =>
        /\ state.currentPhase = "complete"
        /\ decision.shouldMerge
        /\ ~decision.requiresHumanApproval

ScoreAtOrAboveFloor ==
    LET floor == config.requireHumanApprovalIf.qualityScoreBelow
    IN  floor = 0 \/ decision.qualityScore >= floor

\* C8 amended: the same, provided the score is also not below the configured
\* human-review floor (requireHumanApprovalIf.qualityScoreBelow).
C8_AutoMergeDecisionAmended ==
    (Decided /\ PreconditionC8 /\ ScoreAtOrAboveFloor) =>
        /\ state.currentPhase = "complete"
        /\ persisted.currentPhase = "complete"
        /\ decision.shouldMerge
        /\ ~decision.requiresHumanApproval

\* an auto-merge decision under a configuration whose rules are all switched on
C8_Witness ==
    /\ Decided
    /\ PreconditionC8
    /\ ScoreAtOrAboveFloor
    /\ config.requireHumanApprovalIf.iterationsExceeded
    /\ config.requireHumanApprovalIf.qualityScoreBelow > 0
    /\ decision.shouldMerge
    /\ merged

\* C9: blockingIssues holds every blocking issue of the latest Checker
\* result, and a result with a critical security issue is not merged.
C9_BlockingIssuesSurfaced ==
    Called =>
        /\ ErrorIssues(args.review) \subseteq Range(result.blockingIssues)
        /\ SevereSecurityIssues(args.review) \subseteq Range(result.blockingIssues)
        /\ (SevereSecurityIssues(args.review) # {} => ~result.shouldMerge)

LoopStoppedByLimit == stopReason \in {"max_iterations", "cost_limit", "stagnation"}

\* C10: when the loop stops for the iteration cap, the cost cap or the
\* stagnation rule, the persisted state ends in a terminal phase.
C10_LimitStopIsTerminal ==
    (pc = "final" /\ LoopStoppedByLimit) => IsTerminal(persisted)


\* a collaborator call is in flight: the Checker at "codex", the Maker at "claude"
CheckerInFlight == pc = "codex"
MakerInFlight == pc = "claude"

CheckerReturnsError == CheckerInFlight /\ review' # Absent /\ review'.status = "error"

\* C11: when the Checker call of an iteration returns status error, the phase
\* becomes failed in that same step (in memory and persisted), and the run
\* makes no further Checker or Maker call: its only next step is to return.
C11_CheckerErrorFails ==
    /\ [][CheckerReturnsError =>
            /\ state'.currentPhase = "failed"
            /\ persisted'.currentPhase = "failed"
            /\ stopReason' = "checker_error"
            /\ pc' = "final"]_vars
    /\ [][(pc = "final" /\ stopReason = "checker_error") => pc' = "idle"]_vars

\* a Checker error in a later iteration, after the Maker has run once
C11_Witness ==
    /\ pc = "final"
    /\ stopReason = "checker_error"
    /\ state.currentPhase = "failed"
    /\ persisted.currentPhase = "failed"
    /\ state.currentIteration >= 2
    /\ review.status = "error"


Cites(r, why) == r.kind = "blocking" /\ why \in Range(r.reasons)

CapReachedBelowThreshold ==
    /\ args.state.currentIteration >= args.state.maxIterations
    /\ args.state.qualityScore < args.config.qualityThreshold

\* C12: for every state with currentIteration >= maxIterations and a score
\* below the quality threshold, whatever the human-approval rules are,
\* shouldMerge returns shouldMerge = false and requiresHumanApproval = true
\* with a reason that cites the iteration cap reached without meeting the
\* threshold.
C12_CapReachedBelowThreshold ==
    (Called /\ CapReachedBelowThreshold) =>
        /\ ~result.shouldMerge
        /\ result.requiresHumanApproval
        /\ Cites(result.reason, "max_iterations")

\* the cap reached below the threshold with every human-approval rule off
C12_Witness ==
    /\ Called
    /\ CapReachedBelowThreshold
    /\ args.config.requireHumanApprovalIf = Rules(0, FALSE, FALSE, FALSE, FALSE)
    /\ args.ci = "success"
    /\ Len(args.review.issuesFound) = 0
    /\ ~result.shouldMerge
    /\ result.requiresHumanApproval

\* C13: shouldMerge returns shouldMerge = true only if the score is at or
\* above the quality threshold and the CI status is success.
C13_MergeNeedsQualityAndCI ==
    (Called /\ result.shouldMerge) =>
        /\ args.state.qualityScore >= args.config.qualityThreshold
        /\ args.ci = "success"

\* an auto-mergeable change held back by a pending CI alone
C13_Witness ==
    /\ Called
    /\ args.ci = "pending"
    /\ args.config.autoMergeEnabled
    /\ args.state.qualityScore >= args.config.autoMergeThreshold
    /\ ~HasBlockingIssue(args.review)
    /\ args.state.totalCost < args.config.maxCostPerPR
    /\ args.config.requireHumanApprovalIf = Rules(0, FALSE, FALSE, FALSE, FALSE)
    /\ ~result.shouldMerge

\* C14: shouldMerge returns shouldMerge = true only if the cumulative cost is
\* strictly below the per-change cost cap, for every configuration.
C14_MergeNeedsCostBelowCap ==
    (Called /\ result.shouldMerge) =>
        args.state.totalCost < args.config.maxCostPerPR


\* the step in which the orchestrator calls the source-control merge
AutoMergeStep == ~merged /\ merged'

C16_NoMergeWhenDisabled ==
    ~config.autoMergeEnabled =>
        /\ ~merged
        /\ (decision # Absent => decision.requiresHumanApproval)

\* auto-merge disabled, every rule off, and a decision that approves the merge
C16_Witness ==
    /\ Decided
    /\ ~config.autoMergeEnabled
    /\ config.requireHumanApprovalIf = Rules(0, FALSE, FALSE, FALSE, FALSE)
    /\ ciStatus = "success"
    /\ decision.shouldMerge
    /\ decision.requiresHumanApproval
    /\ ~merged

\* an enabled human-approval rule fires on what the decision was made from
EnabledRuleFires ==
    LET rules == config.requireHumanApprovalIf
    IN  \/ (rules.qualityScoreBelow # 0 /\ decision.qualityScore < rules.qualityScoreBelow)
        \/ (rules.securityIssuesFound /\ Len(review.securityIssues) > 0)
        \/ (rules.iterationsExceeded /\ decision.iterationsUsed >= persisted.maxIterations)
        \/ (rules.costExceeded /\ decision.totalCost >= config.maxCostPerPR)
        \/ (rules.tests_failing /\ ciStatus # "success")

\* the auto-merge conditions: score at or above both thresholds, no security
\* issue, no error-severity issue, CI success, auto-merge enabled
AutoMergeConditions ==
    /\ decision.qualityScore >= config.qualityThreshold
    /\ decision.qualityScore >= config.autoMergeThreshold
    /\ Len(review.securityIssues) = 0
    /\ ErrorIssues(review) = {}
    /\ ciStatus = "success"
    /\ config.autoMergeEnabled

CostBelowCap == decision.totalCost < config.maxCostPerPR

C17_WitnessRuleOff ==
    /\ Decided
    /\ AutoMergeConditions
    /\ CostBelowCap
    /\ ~config.requireHumanApprovalIf.iterationsExceeded
    /\ decision.iterationsUsed >= persisted.maxIterations
    /\ ~decision.requiresHumanApproval
    /\ merged

PhaseOf(st) == IF st = Absent THEN None ELSE st.currentPhase

\* the step in which the change is marked Converged
BecomesComplete == PhaseOf(persisted) # "complete" /\ PhaseOf(persisted') = "complete"

\* C18: the orchestrator moves a change to phase 'complete' only when, in that
\* iteration, the score is at or above the threshold, the Checker result has
\* no blocking issue and the CI status is success.
C18_ConvergedOnlyWhenMergeable ==
    [][BecomesComplete =>
        /\ state'.qualityScore >= config.qualityThreshold
        /\ calculateQualityScore(review') >= config.qualityThreshold
        /\ ~HasBlockingIssue(review')
        /\ ciStatus' = "success"]_vars

\* the step in which an iteration starts and its Checker call begins
IterationStarts == pc = "loop" /\ pc' = "codex"

\* C19: every iteration start happens in a state for which canStartIteration
\* returns allowed; none starts at a cumulative cost at or above the cap,
\* resumed runs included.
C19_StartOnlyWhenAllowed ==
    [][IterationStarts =>
        /\ canStartIteration(state, config).allowed
        /\ state.totalCost < config.maxCostPerPR]_vars

LastRecord(st) == st.history[Len(st.history)]

\* C20: the Checker call and the Maker call are never in flight together; the
\* Maker call begins only in the step in which the Checker call of the same
\* iteration returns; and when an iteration is followed by another, its
\* record is in the persisted state before the next Checker call begins, which
\* starts from a state that is saved whole.
C20_StrictlySequential ==
    /\ [](~(CheckerInFlight /\ MakerInFlight))
    /\ [][(MakerInFlight' /\ ~MakerInFlight) =>
            /\ CheckerInFlight
            /\ review'.status = "success"
            /\ state'.currentIteration = state.currentIteration]_vars
    /\ [][(MakerInFlight /\ pc' = "loop") =>
            /\ Len(persisted'.history) = Len(persisted.history) + 1
            /\ LastRecord(persisted').iteration = state.currentIteration
            /\ persisted' = state']_vars
    /\ [][IterationStarts => persisted = state]_vars

\* the Checker call of a second iteration in flight, the record of the first
\* one persisted
C20_Witness ==
    /\ CheckerInFlight
    /\ state.currentIteration = 2
    /\ Len(persisted.history) = 1
    /\ LastRecord(persisted).iteration = 1
    /\ LastRecord(persisted).cost > 0


MakerReturnsError ==
    MakerInFlight /\ claudeResponse' # Absent /\ claudeResponse'.status = "error"

\* the run holds a collaborator result of status error
HoldsErrorResult ==
    \/ (review # Absent /\ review.status = "error")
    \/ (claudeResponse # Absent /\ claudeResponse.status = "error")

\* C21: after a Checker or a Maker call returns status error the phase is
\* failed, in memory and persisted, and the run makes no further collaborator
\* call: it never is in the loop, or waiting on a call, while it holds an
\* error result.
C21_CollaboratorErrorTerminal ==
    /\ [][(CheckerReturnsError \/ MakerReturnsError) =>
            /\ PhaseOf(state') = "failed"
            /\ PhaseOf(persisted') = "failed"
            /\ pc' = "final"]_vars
    /\ [](HoldsErrorResult => pc = "final")

\* a Maker error in a second iteration
C21_Witness ==
    /\ pc = "final"
    /\ claudeResponse # Absent
    /\ claudeResponse.status = "error"
    /\ review.status = "success"
    /\ persisted.currentPhase = "failed"
    /\ persisted.currentIteration = 2
    /\ Len(persisted.history) = 1


AllWritersIdle == \A w \in Writers : writers[w].pc = "idle"

LoggedFor(pr) ==
    SumSeq([i \in 1..Len(costLog) |->
               IF costLog[i].prNumber = pr THEN costLog[i].totalCost ELSE 0])

IssuedTotal == issued[1] + issued[2]

\* C22: after any interleaving of recordCost operations of concurrent
\* processes, once they have returned, the per-change total equals the sum of
\* the costs recorded for the change and the period total equals the sum of
\* all costs recorded.
C22_NoLostCostUpdate ==
    AllWritersIdle =>
        /\ \A pr \in PRs : getPRCost(prTracking, pr) = issued[pr]
        /\ getMonthlyCost(costLog) = IssuedTotal


C23_WitnessUntracked ==
    /\ Called
    /\ ~result.tracked
    /\ result.monthlyLimit.exceeded
    /\ ~result.exceededPR


LastIssueCounts(h, n) == [i \in 1..n |-> h[Len(h) - n + i].issuesFound]

SameIssueCountWarned == "same_issue_count" \in Range(result.warnings)

\* C24: detectSuspiciousPatterns reports the stagnation warning exactly when
\* the history has at least 3 records and the last 3 issue counts are all
\* equal and greater than 0.
C24_SameIssueCountWarning ==
    Called =>
        LET h == args.state.history
        IN  SameIssueCountWarned <=>
                /\ Len(h) >= 3
                /\ LastIssueCounts(h, 3)[1] = LastIssueCounts(h, 3)[2]
                /\ LastIssueCounts(h, 3)[2] = LastIssueCounts(h, 3)[3]
                /\ LastIssueCounts(h, 3)[1] > 0

\* issue counts [8,8,8] after a different count: the warning, and suspicious
C24_Witness ==
    /\ Called
    /\ Len(args.state.history) = 4
    /\ args.state.history[1].issuesFound = 9
    /\ LastIssueCounts(args.state.history, 3) = <<8, 8, 8>>
    /\ SameIssueCountWarned
    /\ result.suspicious

\* issue counts [0,0,0]: no stagnation warning
C24_WitnessZero ==
    /\ Called
    /\ Len(args.state.history) = 3
    /\ LastIssueCounts(args.state.history, 3) = <<0, 0, 0>>
    /\ ~SameIssueCountWarned


\* C25: a run whose recorded quality scores strictly increase in every
\* iteration is never stopped by the stagnation rule, and its convergence
\* status is never set to stagnant.
C25_NoStagnationWhileImproving ==
    (persisted # Absent /\ StrictlyIncreasing(persisted.history)) =>
        /\ persisted.convergenceStatus # "stagnant"
        /\ ~(pc = "final" /\ stopReason = "stagnation")


PositiveDeltas(history) ==
    {i \in 1..(Len(history) - 1) : Improvements(history)[i] > 0}
SumPositiveDeltas(history) ==
    SumSeq([i \in 1..(Len(history) - 1) |->
               IF Improvements(history)[i] > 0 THEN Improvements(history)[i] ELSE 0])
PredictCase(st, target) == st.qualityScore < target /\ Len(st.history) >= 2

\* C26: predictConvergence reports "will not reach target" exactly when the
\* current score is below target, there are at least 2 history entries and no
\* delta is positive; with a positive delta the estimate is
\* ceil((target - current) / mean of the positive deltas) and willReach is true
\* iff the estimate is at most maxIterations - currentIteration.
C26_PredictFromPositiveDeltas ==
    (Called /\ args.fn = "predictConvergence") =>
        LET st == args.state
            target == args.targetQuality
            positive == PositiveDeltas(st.history)
        IN  /\ (~result.willReach /\ result.estimatedIterations = -1)
                <=> (PredictCase(st, target) /\ positive = {})
            /\ (PredictCase(st, target) /\ positive # {}) =>
                /\ result.estimatedIterations =
                       CeilDiv((target - st.qualityScore) * Cardinality(positive),
                               SumPositiveDeltas(st.history))
                /\ result.willReach <=>
                       (result.estimatedIterations
                            <= st.maxIterations - st.currentIteration)


\* C27: with fewer than 2 history entries detectConvergence returns status
\* improving with confidence 0.5, whatever the scores and issue counts of the
\* entries are.
C27_ShortHistoryImproving ==
    (Called /\ args.fn = "detectConvergence" /\ Len(args.history) < 2) =>
        /\ result.status = "improving"
        /\ result.confidence = 50

C27_Witness ==
    /\ Called
    /\ args.fn = "detectConvergence"
    /\ Len(args.history) = 1
    /\ args.history[1].overallQuality = 10
    /\ args.history[1].issuesFound = 9
    /\ result.status = "improving"
    /\ result.confidence = 50


\* C28: the Maker is invoked in an iteration only if that iteration's Checker
\* call succeeded, the computed quality score is below the quality threshold
\* and the Checker reported at least one issue.
C28_MakerOnlyAfterFailingReview ==
    /\ [](MakerInFlight =>
            /\ review # Absent
            /\ review.status = "success"
            /\ state.qualityScore = calculateQualityScore(review)
            /\ ~meetsThreshold(state.qualityScore, config.qualityThreshold)
            /\ Len(review.issuesFound) >= 1)
    /\ [][(MakerInFlight' /\ ~MakerInFlight) =>
            /\ CheckerInFlight
            /\ state'.currentIteration = state.currentIteration
            /\ review'.status = "success"]_vars

C28_Witness ==
    /\ MakerInFlight
    /\ state.currentIteration = 2
    /\ review.status = "success"
    /\ Len(review.issuesFound) = 1
    /\ state.qualityScore < config.qualityThreshold


\* C29: in every reachable state whose phase is non-terminal,
\* history.length = currentIteration.
C29_HistoryMatchesIteration ==
    (persisted # Absent /\ ~IsTerminal(persisted)) =>
        Len(persisted.history) = persisted.currentIteration


NoBlockingGateFails(rv, metrics, ci, cfg) ==
    /\ metrics.overallScore >= cfg.qualityThreshold
    /\ SevereSecurityIssues(rv) = {}
    /\ metrics.security >= 70
    /\ ErrorIssues(rv) = {}
    /\ ci = "success"

WarningCount(rv) == Len(SelectSeq(rv.issuesFound, IsWarningIssue))

\* C30: checkGates returns passed = true iff no blocking gate fails (score at
\* or above the threshold, no critical or high security issue, security score
\* at least 0.7, no error-severity issue, CI status success); the advisory
\* warnings (performance below 0.70, type safety below 0.80, code quality
\* below 0.75, more than 10 warning-severity issues) are reported and never
\* change passed.
C30_GatesPassIffNoBlocker ==
    (Called /\ args.fn = "checkGates") =>
        /\ result.passed <=>
               NoBlockingGateFails(args.review, args.metrics, args.ciStatus, args.config)
        /\ "performance" \in Range(result.warnings) <=> args.metrics.performance < 70
        /\ "type_safety" \in Range(result.warnings) <=> args.metrics.typeSafety < 80
        /\ "code_quality" \in Range(result.warnings) <=> args.metrics.codeQuality < 75
        /\ "warning_issues" \in Range(result.warnings) <=> WarningCount(args.review) > 10

C30_Witness ==
    /\ Called
    /\ args.fn = "checkGates"
    /\ result.passed
    /\ Len(result.warnings) = 4
    /\ WarningCount(args.review) = 11


RunInProgress == pc \in {"loop", "codex", "ci", "claude", "final"}

\* C31: when every collaborator call returns, every run of the control loop
\* terminates; the Checker calls of one run are at most maxIterations minus the
\* currentIteration the run started with, and the Maker calls are at most the
\* Checker calls.
C31_RunTerminatesWithinBudget ==
    /\ RunInProgress ~> (pc = "idle")
    /\ [](RunInProgress =>
            /\ runLog.checkerCalls <= state.maxIterations - runLog.startIteration
            /\ runLog.makerCalls <= runLog.checkerCalls)

C31_Witness ==
    /\ pc = "final"
    /\ runLog.startIteration = 1
    /\ runLog.checkerCalls = state.maxIterations - 1
    /\ runLog.makerCalls = runLog.checkerCalls
    /\ runLog.checkerCalls >= 2


RunStarts == pc = "idle" /\ pc' = "loop"

FreshState(cfg) ==
    [currentIteration  |-> 0,
     maxIterations     |-> cfg.maxIterations,
     history           |-> <<>>,
     currentPhase      |-> "waiting",
     qualityScore      |-> 0,
     convergenceStatus |-> "improving",
     totalCost         |-> 0]

\* C32: when the state file of a change is missing or unparsable, getState
\* returns null and the run starts from a fresh state (currentIteration 0,
\* empty history, totalCost 0, phase waiting), which it saves; when the file is
\* parsable, the run resumes from exactly the persisted values.
C32_CorruptStateReinitialized ==
    [][RunStarts =>
        IF persisted = Absent \/ persisted = Unparsable
        THEN /\ getState(persisted) = Absent
             /\ state' = FreshState(config)
             /\ persisted' = FreshState(config)
        ELSE /\ state' = persisted
             /\ persisted' = persisted]_vars

\* a run has started afresh on a change that an earlier run had merged
C32_Witness ==
    /\ pc = "loop"
    /\ merged
    /\ state = FreshState(config)
    /\ persisted = state

\* a run has resumed a change at its second iteration
C32_WitnessResumed ==
    /\ pc = "loop"
    /\ runLog.startIteration = 1
    /\ runLog.checkerCalls = 0
    /\ state = persisted
    /\ Len(state.history) = 1


GatesOf(rv, ci, cfg) == checkGates(rv, calculateMetrics(rv), ci, cfg)

\* C33: whenever shouldMerge returns shouldMerge = true, checkGates on the
\* same review, with the metrics computed from it, the same CI status and the
\* same configuration returns passed = true.
C33_MergeImpliesGatesPass ==
    (Called /\ args.fn = "shouldMerge" /\ result.shouldMerge) =>
        GatesOf(args.review, args.ci, args.config).passed


\* C34: for every configuration, also one with autoMergeThreshold below
\* qualityThreshold: whenever isAutoMergeSafe returns true, checkGates returns
\* passed = true for the same inputs; and whenever the MergeDecider finds the
\* change eligible for auto-merge, the score is at or above qualityThreshold.
C34_AutoMergeStricterThanGates ==
    (Called /\ args.fn = "isAutoMergeSafe") =>
        /\ result.safe => result.gates.passed
        /\ ~result.decision.requiresHumanApproval =>
               args.state.qualityScore >= args.config.qualityThreshold


\* C35: in every MergeDecision, requiresHumanApproval = false implies
\* shouldMerge = true and autoMergeEnabled = true; a decision with
\* shouldMerge = false has requiresHumanApproval = true.
C35_NoApprovalOnlyOnAutoMerge ==
    (Called /\ args.fn = "shouldMerge") =>
        /\ ~result.requiresHumanApproval =>
               /\ result.shouldMerge
               /\ args.config.autoMergeEnabled
               /\ result.reason.autoMerge
        /\ ~result.shouldMerge => result.requiresHumanApproval

C35_Witness ==
    /\ Called
    /\ args.fn = "shouldMerge"
    /\ ~result.requiresHumanApproval
    /\ result.shouldMerge
    /\ args.config.autoMergeEnabled


RunEnded == pc = "final"

\* C36: after any run, totalCost equals the sum of the costs of all Checker
\* calls and all Maker calls that returned status success, the Checker call of
\* an iteration whose Maker call then failed included.
C36_TotalCostCountsEveryCall ==
    RunEnded => persisted.totalCost = runLog.startCost + runLog.spent


\* C37: the totalCost reported in the MergeDecision of an iteration, which is
\* the value compared against the cost cap, equals the state's totalCost after
\* that iteration has been recorded.
C37_DecisionSeesRecordedCost ==
    (RunEnded /\ decision # Absent) =>
        /\ decision.totalCost = persisted.totalCost
        /\ persisted.totalCost >= config.maxCostPerPR => decision.requiresHumanApproval


\* C38: for every state with at least 2 history entries and a current score
\* below target, predictConvergence reports willReach = true exactly when
\* willLikelyExceedLimit returns false, the state's qualityScore being passed
\* as currentQuality.
C38_ProjectionsAgree ==
    (Called /\ args.fn = "willLikelyExceedLimit"
        /\ PredictCase(args.state, args.targetQuality)) =>
        (result.prediction.willReach <=> ~result.exceed)


InWindow(times, window) == Len(Newer(times, clock, window))

RecordStep == requests'.day # requests.day /\ Len(requests'.day) > Len(requests.day)

\* C39: under any interleaving of concurrent execute calls, the requests
\* recorded within a one-minute window never exceed requestsPerMinute, nor those
\* within an hour requestsPerHour, nor those within a day requestsPerDay; a
\* request is recorded only when the window counts are below all three limits.
C39_RateLimitsHold ==
    /\ [](/\ InWindow(requests.minute, MinuteTicks) <= RequestsPerMinute
          /\ InWindow(requests.hour, HourTicks) <= RequestsPerHour
          /\ InWindow(requests.day, DayTicks) <= RequestsPerDay)
    /\ [][RecordStep =>
            /\ InWindow(requests.minute, MinuteTicks) < RequestsPerMinute
            /\ InWindow(requests.hour, HourTicks) < RequestsPerHour
            /\ InWindow(requests.day, DayTicks) < RequestsPerDay]_vars

EvictionStep == Len(cache') < Len(cache)

\* C40: after any sequence of set operations, concurrent ones included, on a
\* cache that started with at most maxEntries entries, the number of cached
\* entries never exceeds maxEntries; an eviction removes the entry with the
\* oldest lastAccessedAt.
C40_CacheWithinMaxEntries ==
    /\ [](Len(cache) <= MaxEntries)
    /\ [][EvictionStep =>
            \E n \in 1..Len(cache) :
                /\ cache' = deleteAt(cache, n)
                /\ \A j \in 1..Len(cache) :
                       cache[n].lastAccessedAt <= cache[j].lastAccessedAt]_vars

=============================================================================
